---- MODULE Spec2Model ----
(***************************************************************************)
(* Model of the whale-trade scanner: the SQLite ledger (src/src/database.py)*)
(* with its per-call connections and transactions, the P&L formula, the    *)
(* retention cleanup, and the RTDS feed client                              *)
(* (src/src/websocket_client.py).                                           *)
(*                                                                          *)
(* Units.  Python floats are modelled in fixed point.  In the ledger a size *)
(* is a number of tenths of a share, a price a number of cents, so         *)
(* size * price and trade_value are thousandths of a dollar, and a pnl     *)
(* (rounded to two decimals by the code) is a number of cents.  The feed   *)
(* section states its own units.                                           *)
(*                                                                          *)
(* Storage.  Every Database method opens its own connection.  Python's     *)
(* sqlite3 runs SELECT in autocommit and opens an implicit transaction at  *)
(* the first INSERT/UPDATE/DELETE, which takes the database write lock     *)
(* until commit; leaving the "async with" block without commit closes the  *)
(* connection and rolls the transaction back.                              *)
(***************************************************************************)
EXTENDS Integers, Sequences, FiniteSets, TLC

\* ---------------------------------------------------------------- bounds
MaxTrades == 2       \* trades ever recorded in a run
MaxWalletTrades == 2 \* the same, in the runs with the enricher
MaxDay == 1          \* the clock runs over days 0..MaxDay
MaxMessages == 2     \* messages the stream client receives in a run
MaxEnrichTrades == 1   \* trades ingested beside the enricher
MaxSilence == 6      \* check intervals counted since the last message
MaxWaits == 6        \* reconnection sleeps between two connections
MaxEvents == 2       \* whale trades handed to handle_whale_trade in a run

\* ------------------------------------------------------------ SQL values
\* A nullable column holds NULL or a one-element tuple with the value.
NULL == <<>>
Some(v) == <<v>>
Val(x) == x[1]

NoTxn == [open |-> FALSE]

\* ------------------------------------------------------------ the clock
\* A naive datetime: a whole number of days and a microsecond part.
Times == [d : 0..MaxDay, us : {0, 1}]

TimeLess(a, b) == a.d < b.d \/ (a.d = b.d /\ a.us < b.us)

\* datetime - timedelta(days=n)
MinusDays(t, n) == [d |-> t.d - n, us |-> t.us]

\* datetime.isoformat(): fixed-width digits, and the fractional part is
\* written (".ffffff") only when the microsecond is not 0.  Characters are
\* their ASCII codes.
IsoFormat(t) ==
    <<48 + (t.d \div 10), 48 + (t.d % 10)>>
      \o (IF t.us = 0 THEN <<>> ELSE <<46, 48, 48, 48, 48, 48, 48 + t.us>>)

\* datetime.fromisoformat()
FromIsoFormat(s) ==
    [d |-> (s[1] - 48) * 10 + (s[2] - 48),
     us |-> IF Len(s) > 2 THEN s[9] - 48 ELSE 0]

\* SQLite's comparison of two TEXT values (BINARY collation: memcmp, then
\* the shorter string first).
RECURSIVE TextLess(_, _)
TextLess(a, b) ==
    IF b = <<>> THEN FALSE
    ELSE IF a = <<>> THEN TRUE
    ELSE IF Head(a) # Head(b) THEN Head(a) < Head(b)
    ELSE TextLess(Tail(a), Tail(b))

\* ------------------------------------------------------- the P&L formula
\* str.upper() on the spellings that occur
Upper(s) ==
    CASE s \in {"YES", "Yes", "yes"} -> "YES"
      [] s \in {"NO", "No", "no"} -> "NO"
      [] s \in {"BUY", "Buy", "buy"} -> "BUY"
      [] s \in {"SELL", "Sell", "sell"} -> "SELL"
      [] OTHER -> s

\* round(x, 2) of a value given in thousandths, in cents.  The value is a
\* binary double: off a tie round() returns the nearest cent; at a decimal
\* tie (x.xx5) the double lies just below or just above the tie, or on it,
\* and round() returns the cent below or the cent above.
Round2(x) ==
    LET q == x \div 10
        r == x % 10
    IN  IF r < 5 THEN {q}
        ELSE IF r > 5 THEN {q + 1}
        ELSE {q, q + 1}

\* (won computed from the bet alone, without the side)
calculate_trade_pnl_ignoring_side(bet_outcome, side, size, price, resolved_outcome) ==
    LET bet_yes == Upper(bet_outcome) = "YES"
        resolved_yes == Upper(resolved_outcome) = "YES"
        is_buy == Upper(side) = "BUY"
        won == bet_yes = resolved_yes
        pnl == IF won
               THEN IF is_buy THEN size * (100 - price) ELSE size * price
               ELSE IF is_buy THEN -(size * price) ELSE -(size * (100 - price))
    IN  {[won |-> won, pnl |-> c] : c \in Round2(pnl)}

\* The (won, pnl) pairs the function can return: one, or two at a tie of
\* round().  size is in tenths of a share, price in cents, pnl in cents.
calculate_trade_pnl(bet_outcome, side, size, price, resolved_outcome) ==
    LET bet_yes == Upper(bet_outcome) = "YES"
        resolved_yes == Upper(resolved_outcome) = "YES"
        is_buy == Upper(side) = "BUY"
        profits_from_yes == (is_buy /\ bet_yes) \/ (~is_buy /\ ~bet_yes)
        won == profits_from_yes = resolved_yes
        pnl == IF won
               THEN IF is_buy THEN size * (100 - price) ELSE size * price
               ELSE IF is_buy THEN -(size * price) ELSE -(size * (100 - price))
    IN  {[won |-> won, pnl |-> c] : c \in Round2(pnl)}

\* ------------------------------------------------------------ the ledger
Addresses == {"w1", "w2"}
Markets == {"m1", "m2"}
ResolvedOutcomes == {"Yes", "No"}

\* The trades the ingestion path hands to record_whale_trade (main.py fills
\* "outcome" with trade.get("outcome"), which is None when the frame has no
\* such key).
BuyYes ==
    [wallet_address |-> "w1", condition_id |-> "m1", outcome |-> Some("Yes"),
     side |-> "BUY", size |-> 100, price |-> 60]
SellYes ==
    [wallet_address |-> "w2", condition_id |-> "m1", outcome |-> Some("Yes"),
     side |-> "SELL", size |-> 50, price |-> 30]
BuyNo ==
    [wallet_address |-> "w1", condition_id |-> "m2", outcome |-> Some("No"),
     side |-> "BUY", size |-> 3, price |-> 33]
NoOutcome ==
    [wallet_address |-> "w2", condition_id |-> "m1", outcome |-> NULL,
     side |-> "BUY", size |-> 100, price |-> 60]

\* trades of one market, for the runs with the enricher
WalletInputs == {BuyYes, SellYes, NoOutcome}
\* a trade whose frame had no conditionId
NoMarketId ==
    [wallet_address |-> "w1", condition_id |-> "", outcome |-> Some("Yes"),
     side |-> "BUY", size |-> 100, price |-> 60]
\* one trade in each market, for the runs with two reconcilers
ConcurrentInputs == {BuyYes, BuyNo}
\* a losing and a winning trade, for the runs over time
RetentionInputs == {SellYes, BuyNo}

\* What the resolution source reports for each market once it has resolved
SourceReports == {<<"m1", "Yes">>, <<"m2", "No">>}

\* A Python dict is a function from its keys; d.get(k) is None for a key
\* the dict does not hold, and an empty dict (or None) is falsy.
DictGet(d, k) == IF k \in DOMAIN d THEN d[k] ELSE NULL
Truthy(d) == DOMAIN d # {}

\* api_data passed to upsert_wallet: nothing, or what a complete fetch gives
ApiData ==
    { <<>>,
      [leaderboard_rank |-> Some(7), pnl |-> Some(100), volume |-> Some(200),
       trade_count |-> Some(3)] }

\* The callers of the ledger: the ingestion path, the enricher, two
\* reconcilers (the scanner's own, and a second one on the same database
\* file) and the cleanup script.
Resolvers == {"r1", "r2"}
\* callers of upsert_wallet: the scanner's enricher, and the enricher of a
\* second scanner on the same database file
Upserters == {"enrich", "enrich2"}
Procs == {"ingest", "cln"} \cup Upserters \cup Resolvers

VARIABLES
    db,        \* the committed database: wallets, whale_trades, sqlite_sequence
    pending,   \* the open write transaction's view of the database, or NoTxn
    lock,      \* the connection holding the write lock, or "none"
    pc,        \* each caller's position in its Database method
    arg,       \* each caller's arguments
    snap,      \* resolve_trades: the rows fetched by its SELECT
    idx,       \* resolve_trades: position in the loop over snap
    before,    \* the committed database when the caller took the write lock
    failure,   \* history: the call that has just been left without commit, or NoArg
    now        \* datetime.now()

\* RTDSClient (websocket_client.py)
VARIABLES
    whale_threshold,   \* self.whale_threshold, in ten-thousandths of a dollar
    ws,                \* self.ws: "None", "open" or "closed"
    _running,          \* self._running
    _reconnect_delay,  \* self._reconnect_delay, in seconds
    _message_count,    \* self._message_count
    _whale_count,      \* self._whale_count
    fpc,               \* position of connect()
    on_whale_trade,    \* history: the trades handed to the on_whale_trade callback
    processed,         \* history: the trades _process_trade was called with
    waits              \* history: the sleeps of connect() since the client was
                       \* made or last connected, in seconds

\* One call of calculate_trade_pnl: its arguments and what it returned
VARIABLES pnl_args, pnl_ret

\* WalletEnricher.enrich (enrichment.py): one call at a time
VARIABLES
    epc,        \* position of enrich()
    e_address,  \* its wallet_address argument
    e_start,    \* history: datetime.now() when it called get_wallet
    e_wallet,   \* wallet: what get_wallet returned, None or a dict
    e_api,      \* api_data
    lookups,    \* history: the network lookups the call has issued
    e_resp,     \* history: how the two lookups of the call ended
    e_ret       \* history: what the last call returned, or NULL

\* one call of ResolutionTracker._extract_resolution
VARIABLES
    ext_market, \* its argument, a market object of the resolution source
    ext_ret     \* [returned |-> FALSE], or the value it returned

\* one cycle of ResolutionTracker.check_resolutions at a time
VARIABLES
    cpc,        \* position of check_resolutions
    c_queue,    \* unresolved: the markets get_unresolved_trades returned
    c_i,        \* the loop's position in it
    c_count,    \* resolved_count
    c_log,      \* history: the lookups of this cycle, market and response
    c_db0,      \* history: the database when the cycle started
    c_prev      \* history: the markets the previous cycle got no outcome for

\* the connection and the three loops connect() gathers on it
VARIABLES
    t_ping,      \* _ping_loop of the current gather
    t_recv,      \* _receive_loop
    t_dog,       \* _data_timeout_checker
    orphan_dog,  \* a _data_timeout_checker of an earlier gather still runs
    silence,     \* datetime.now() - last_data_time, in check intervals
    conn_frames, \* history: a message was received on this connection
    frames,      \* history: how the handling of each message received on
                 \* this connection ended
    subscribed,  \* history: the subscription messages sent on this connection
    silence0,    \* history: silence when this connection was established,
                 \* until a message is received on it
    closing      \* history: how, by whom and when the connection was closed

\* WhaleScanner.handle_whale_trade (main.py): one event at a time, as the
\* receive loop awaits the callback
VARIABLES
    hpc,       \* position of handle_whale_trade
    h_ev,      \* history: the event being handled and what was done for it
    h_stats,   \* wallet_stats
    h_events   \* history: the events handled, in order

\* WhaleScanner.start (main.py): the three tasks it gathers
VARIABLES
    spc,           \* position of start()
    _tasks,        \* self._tasks: each task's state
    loop_at,       \* where each task is in its loop
    _shutdown,     \* self._shutdown
    stop_calls,    \* the components whose stop() was called
    open_sessions, \* the HTTP sessions that are open
    signalled      \* history: handle_signal has run

\* The resolution source (Gamma API), as run_resolution_tracker meets it
VARIABLES
    reported       \* the markets it reports resolved, from now on, at
                   \* every lookup

\* One call of Database.get_unresolved_trades
VARIABLES
    q_trades,      \* the rows of whale_trades at the call
    q_ret          \* what the call returned

ledgerVars == <<db, pending, lock, pc, arg, snap, idx, before, failure, now>>
feedVars == <<whale_threshold, ws, _running, _reconnect_delay, _message_count,
              _whale_count, fpc, on_whale_trade, processed, waits>>
taskVars == <<t_ping, t_recv, t_dog, orphan_dog, silence, conn_frames, frames,
              subscribed, silence0,
              closing>>
pnlVars == <<pnl_args, pnl_ret>>
enrVars == <<epc, e_address, e_start, e_wallet, e_api, lookups, e_resp, e_ret>>
extVars == <<ext_market, ext_ret>>
cycVars == <<cpc, c_queue, c_i, c_count, c_log, c_db0, c_prev>>
hwtVars == <<hpc, h_ev, h_stats, h_events>>
\* the groups every action of another component leaves alone
mainVars == <<spc, _tasks, loop_at, _shutdown, stop_calls, open_sessions,
              signalled>>
srcVars == <<reported>>
qryVars == <<q_trades, q_ret>>
restVars == <<hwtVars, mainVars, srcVars, qryVars>>
nonLedgerVars == <<feedVars, taskVars, pnlVars, enrVars, extVars, cycVars,
    restVars>>
nonFeedVars == <<ledgerVars, pnlVars, enrVars, extVars, cycVars,
    restVars>>
nonPnlVars == <<ledgerVars, feedVars, taskVars, enrVars, extVars, cycVars,
    restVars>>
nonEnrVars == <<feedVars, taskVars, pnlVars, extVars, cycVars,
    restVars>>
nonExtVars == <<ledgerVars, feedVars, taskVars, pnlVars, enrVars, cycVars,
    restVars>>
nonCycVars == <<feedVars, taskVars, pnlVars, enrVars, extVars,
    restVars>>

NoArg == [kind |-> "none"]

EmptyDb ==
    [wallets |-> {}, trades |-> {}, seq |-> 0,
     credits |-> [i \in 1..(MaxTrades + MaxWalletTrades) |-> 0],         \* history: wallet credits per trade id
     \* history: per wallet, the number and the summed pnl of the rows that
     \* cleanup has removed
     deleted |-> [a \in Addresses |-> [n |-> 0, pnl |-> 0]]]

HasWallet(d, a) == \E w \in d.wallets : w.address = a
Wallet(d, a) == CHOOSE w \in d.wallets : w.address = a
HasTrade(d, i) == \E t \in d.trades : t.id = i
Trade(d, i) == CHOOSE t \in d.trades : t.id = i

NewWallet(a, n, vol) ==
    [address |-> a, total_whale_trades |-> n, total_whale_volume |-> vol,
     wins |-> 0, losses |-> 0, realized_pnl |-> 0,
     leaderboard_rank |-> NULL, leaderboard_pnl |-> NULL,
     leaderboard_volume |-> NULL, api_trade_count |-> NULL,
     last_api_fetch |-> NULL]

\* The database a statement of caller p works on: its own open transaction,
\* or the committed state when it has none.
View(p) == IF lock = p THEN pending.db ELSE db

\* A statement that writes needs the write lock.
CanWrite(p) == lock \in {"none", p}

\* (a connection in autocommit mode: what was written stays)
CloseKeepsWrites(committed, txn) == txn

\* Leaving "async with aiosqlite.connect(...)" without commit: the
\* connection is closed and its open transaction is rolled back.
CloseWithoutCommit(committed, txn) == committed

\* db.commit()
Commit(committed, txn) == txn

Idle(p) == pc[p] = "idle"

\* ------------------------------------------------- record_whale_trade
\* (INSERT OR IGNORE: the counters of a wallet that exists are left alone)
InsertCountersOrIgnore(d, tr) ==
    IF HasWallet(d, tr.wallet_address) THEN d
    ELSE [d EXCEPT !.wallets =
              @ \cup {NewWallet(tr.wallet_address, 1, tr.size * tr.price)}]
\* INSERT INTO wallets ... ON CONFLICT(address) DO UPDATE SET counters
UpsertCounters(d, tr) ==
    LET a == tr.wallet_address
        v == tr.size * tr.price
    IN  IF HasWallet(d, a)
        THEN [d EXCEPT !.wallets =
                 (@ \ {Wallet(d, a)}) \cup
                 {[Wallet(d, a) EXCEPT !.total_whale_trades = @ + 1,
                                       !.total_whale_volume = @ + v]}]
        ELSE [d EXCEPT !.wallets = @ \cup {NewWallet(a, 1, v)}]

\* INSERT INTO whale_trades (...): the row gets the next AUTOINCREMENT id
\* and NULL settlement columns.
InsertTrade(d, tr) ==
    [d EXCEPT !.seq = @ + 1,
              !.trades = @ \cup
                 {[id |-> d.seq + 1, timestamp |-> tr.timestamp,
                   wallet_address |-> tr.wallet_address,
                   condition_id |-> tr.condition_id, outcome |-> tr.outcome,
                   side |-> tr.side, size |-> tr.size, price |-> tr.price,
                   trade_value |-> tr.size * tr.price,
                   resolved_outcome |-> NULL, trade_won |-> NULL, pnl |-> NULL]}]

\* A write statement of caller p that turns its view of the database into d:
\* the first one opens the transaction and takes the write lock.
Write(p, d) ==
    /\ CanWrite(p)
    /\ lock' = p
    /\ pending' = [open |-> TRUE, db |-> d]
    /\ before' = IF lock = p THEN before ELSE [before EXCEPT ![p] = Some(db)]

\* The end of caller p's connection: with commit, or without.
Release(p) ==
    /\ lock' = IF lock = p THEN "none" ELSE lock
    /\ pending' = IF lock = p THEN NoTxn ELSE pending
    /\ before' = [before EXCEPT ![p] = NULL]
    /\ pc' = [pc EXCEPT ![p] = "idle"]
    /\ arg' = [arg EXCEPT ![p] = NoArg]
    /\ snap' = [snap EXCEPT ![p] = <<>>]
    /\ idx' = [idx EXCEPT ![p] = 1]

\* record_whale_trade, first statement: the wallet counters.  The trade is
\* stamped with the time of its arrival.
RecordCall(p, tr, cap) ==
    /\ p = "ingest"
    /\ Idle(p)
    /\ db.seq < cap
    /\ LET trade == [wallet_address |-> tr.wallet_address,
                     condition_id |-> tr.condition_id, outcome |-> tr.outcome,
                     side |-> tr.side, size |-> tr.size, price |-> tr.price,
                     timestamp |-> IsoFormat(now)]
       IN  /\ Write(p, UpsertCounters(db, trade))
           /\ arg' = [arg EXCEPT ![p] = [kind |-> "record", trade |-> trade]]
    /\ pc' = [pc EXCEPT ![p] = "rec_counters"]
    /\ failure' = NoArg
    /\ UNCHANGED <<db, snap, idx, now>>

RecCounters(p, tr, cap) ==
    /\ RecordCall(p, tr, cap)
    /\ UNCHANGED nonLedgerVars

\* record_whale_trade, second statement: the trade row
RecInsert(p) ==
    /\ pc[p] = "rec_counters"
    /\ Write(p, InsertTrade(View(p), arg[p].trade))
    /\ pc' = [pc EXCEPT ![p] = "rec_insert"]
    /\ failure' = NoArg
    /\ UNCHANGED nonLedgerVars
    /\ UNCHANGED <<db, arg, snap, idx, now>>

RecCommit(p) ==
    /\ pc[p] = "rec_insert"
    /\ db' = Commit(db, View(p))
    /\ Release(p)
    /\ failure' = NoArg
    /\ UNCHANGED nonLedgerVars
    /\ UNCHANGED now

\* ------------------------------------------------------ resolve_trades
\* (the SELECT without "AND trade_won IS NULL")
AllTradesOfMarket(d, condition_id) ==
    {t \in d.trades : t.condition_id = condition_id}

\* SELECT id, wallet_address, outcome, side, size, price FROM whale_trades
\* WHERE condition_id = ? AND trade_won IS NULL
UnresolvedTrades(d, condition_id) ==
    {t \in d.trades : t.condition_id = condition_id /\ t.trade_won = NULL}

\* cursor.fetchall(): the rows in rowid order
RECURSIVE FetchAll(_)
FetchAll(rows) ==
    IF rows = {} THEN <<>>
    ELSE LET first == CHOOSE t \in rows : \A u \in rows : t.id <= u.id
         IN  <<[id |-> first.id, wallet_address |-> first.wallet_address,
                outcome |-> first.outcome, side |-> first.side,
                size |-> first.size, price |-> first.price]>>
               \o FetchAll(rows \ {first})

\* calculate_trade_pnl raises (AttributeError on None.upper()) for a row
\* whose outcome is NULL
PnlRaises(row) == row.outcome = NULL

\* won, pnl = calculate_trade_pnl(...) for a row of the SELECT (the sizes
\* and prices of the trades recorded here give no tie of round(): one pair)
RowPnl(row, resolved_outcome) ==
    CHOOSE r \in calculate_trade_pnl(Val(row.outcome), row.side, row.size,
                                     row.price, resolved_outcome) : TRUE

\* (the UPDATE with "WHERE condition_id = ?" in place of "WHERE id = ?")
UpdateTradesOfMarket(d, row, resolved_outcome) ==
    LET r == RowPnl(row, resolved_outcome)
    IN  IF HasTrade(d, row.id)
        THEN [d EXCEPT !.trades =
                 {IF t.condition_id = Trade(d, row.id).condition_id
                  THEN [t EXCEPT !.resolved_outcome = Some(resolved_outcome),
                                 !.trade_won = Some(IF r.won THEN 1 ELSE 0),
                                 !.pnl = Some(r.pnl)]
                  ELSE t : t \in @}]
        ELSE d

\* UPDATE whale_trades SET resolved_outcome = ?, trade_won = ?, pnl = ?
\* WHERE id = ?
UpdateTrade(d, row, resolved_outcome) ==
    LET r == RowPnl(row, resolved_outcome)
    IN  IF HasTrade(d, row.id)
        THEN [d EXCEPT !.trades =
                 (@ \ {Trade(d, row.id)}) \cup
                 {[Trade(d, row.id) EXCEPT
                      !.resolved_outcome = Some(resolved_outcome),
                      !.trade_won = Some(IF r.won THEN 1 ELSE 0),
                      !.pnl = Some(r.pnl)]}]
        ELSE d

\* (the wallet update that books the pnl of winning trades only)
UpdateWalletWinsOnly(d, row, resolved_outcome) ==
    LET r == RowPnl(row, resolved_outcome)
        a == row.wallet_address
        credited == [d EXCEPT !.credits[row.id] = @ + 1]
    IN  IF HasWallet(d, a)
        THEN [credited EXCEPT !.wallets =
                 (@ \ {Wallet(d, a)}) \cup
                 {[Wallet(d, a) EXCEPT
                      !.wins = @ + (IF r.won THEN 1 ELSE 0),
                      !.losses = @ + (IF r.won THEN 0 ELSE 1),
                      !.realized_pnl = @ + (IF r.won THEN r.pnl ELSE 0)]}]
        ELSE d

\* UPDATE wallets SET wins = wins + ?, losses = losses + ?,
\* realized_pnl = realized_pnl + ? WHERE address = ?
UpdateWalletStats(d, row, resolved_outcome) ==
    LET r == RowPnl(row, resolved_outcome)
        a == row.wallet_address
        credited == [d EXCEPT !.credits[row.id] = @ + 1]
    IN  IF HasWallet(d, a)
        THEN [credited EXCEPT !.wallets =
                 (@ \ {Wallet(d, a)}) \cup
                 {[Wallet(d, a) EXCEPT
                      !.wins = @ + (IF r.won THEN 1 ELSE 0),
                      !.losses = @ + (IF r.won THEN 0 ELSE 1),
                      !.realized_pnl = @ + r.pnl]}]
        ELSE d

ResSelect(p, condition_id, resolved_outcome) ==
    /\ p \in Resolvers
    /\ Idle(p)
    /\ arg' = [arg EXCEPT ![p] = [kind |-> "resolve",
                                  condition_id |-> condition_id,
                                  resolved_outcome |-> resolved_outcome]]
    /\ snap' = [snap EXCEPT ![p] = FetchAll(UnresolvedTrades(db, condition_id))]
    /\ idx' = [idx EXCEPT ![p] = 1]
    /\ pc' = [pc EXCEPT ![p] = "res_loop"]
    /\ failure' = NoArg
    /\ UNCHANGED nonLedgerVars
    /\ UNCHANGED <<db, pending, lock, before, now>>

ResUpdateTrade(p) ==
    /\ pc[p] = "res_loop"
    /\ idx[p] <= Len(snap[p])
    /\ ~PnlRaises(snap[p][idx[p]])
    /\ Write(p, UpdateTrade(View(p), snap[p][idx[p]], arg[p].resolved_outcome))
    /\ pc' = [pc EXCEPT ![p] = "res_wallet"]
    /\ failure' = NoArg
    /\ UNCHANGED nonLedgerVars
    /\ UNCHANGED <<db, arg, snap, idx, now>>

ResUpdateWallet(p) ==
    /\ pc[p] = "res_wallet"
    /\ Write(p, UpdateWalletStats(View(p), snap[p][idx[p]],
                                  arg[p].resolved_outcome))
    /\ idx' = [idx EXCEPT ![p] = @ + 1]
    /\ pc' = [pc EXCEPT ![p] = "res_loop"]
    /\ failure' = NoArg
    /\ UNCHANGED nonLedgerVars
    /\ UNCHANGED <<db, arg, snap, now>>

\* db.commit(); return len(trades)
ResCommit(p) ==
    /\ pc[p] = "res_loop"
    /\ idx[p] > Len(snap[p])
    /\ db' = Commit(db, View(p))
    /\ Release(p)
    /\ failure' = NoArg
    /\ UNCHANGED nonLedgerVars
    /\ UNCHANGED now

\* -------------------------------------------------- cleanup_old_trades
\* the retention_days the script is run with
RetentionDays == {0, 1}

\* (the WHERE clause without "trade_won IS NOT NULL")
OldTrades(d, cutoff) ==
    {t \in d.trades : TextLess(t.timestamp, cutoff)}

\* ... FROM whale_trades WHERE trade_won IS NOT NULL AND timestamp < ?
OldResolvedTrades(d, cutoff) ==
    {t \in d.trades : t.trade_won # NULL /\ TextLess(t.timestamp, cutoff)}

\* DELETE FROM whale_trades WHERE trade_won IS NOT NULL AND timestamp < ?
RECURSIVE SumPnl(_)
SumPnl(rows) ==
    IF rows = {} THEN 0
    ELSE LET t == CHOOSE x \in rows : TRUE
         IN  (IF t.pnl = NULL THEN 0 ELSE Val(t.pnl)) + SumPnl(rows \ {t})

\* (a cleanup that also deletes the wallets left without a trade row)
DeleteOldTradesAndWallets(d, cutoff) ==
    LET gone == OldResolvedTrades(d, cutoff)
        of(a) == {t \in gone : t.wallet_address = a}
    IN  [d EXCEPT !.trades = @ \ gone,
                  !.wallets = {w \in @ : \E t \in d.trades \ gone :
                                              t.wallet_address = w.address},
                  !.deleted = [a \in Addresses |->
                                  [n |-> @[a].n + Cardinality(of(a)),
                                   pnl |-> @[a].pnl + SumPnl(of(a))]]]

DeleteOldTrades(d, cutoff) ==
    LET gone == OldResolvedTrades(d, cutoff)
        of(a) == {t \in gone : t.wallet_address = a}
    IN  [d EXCEPT !.trades = @ \ gone,
                  !.deleted = [a \in Addresses |->
                                  [n |-> @[a].n + Cardinality(of(a)),
                                   pnl |-> @[a].pnl + SumPnl(of(a))]]]

\* cutoff = (datetime.now() - timedelta(days=retention_days)).isoformat(),
\* then SELECT COUNT(*) of the rows to delete
ClnCount(p, retention_days) ==
    /\ p = "cln"
    /\ Idle(p)
    /\ retention_days <= now.d
    /\ LET cutoff == IsoFormat(MinusDays(now, retention_days))
           trades_to_delete == Cardinality(OldResolvedTrades(db, cutoff))
       IN  IF trades_to_delete > 0
           THEN /\ arg' = [arg EXCEPT ![p] = [kind |-> "cleanup", cutoff |-> cutoff]]
                /\ pc' = [pc EXCEPT ![p] = "cln_delete"]
           ELSE UNCHANGED <<arg, pc>>
    /\ failure' = NoArg
    /\ UNCHANGED nonLedgerVars
    /\ UNCHANGED <<db, pending, lock, snap, idx, before, now>>

ClnDelete(p) ==
    /\ pc[p] = "cln_delete"
    /\ Write(p, DeleteOldTrades(View(p), arg[p].cutoff))
    /\ pc' = [pc EXCEPT ![p] = "cln_commit"]
    /\ failure' = NoArg
    /\ UNCHANGED nonLedgerVars
    /\ UNCHANGED <<db, arg, snap, idx, now>>

ClnCommit(p) ==
    /\ pc[p] = "cln_commit"
    /\ db' = Commit(db, View(p))
    /\ Release(p)
    /\ failure' = NoArg
    /\ UNCHANGED nonLedgerVars
    /\ UNCHANGED now

\* ------------------------------------------------------- upsert_wallet
\* SELECT address FROM wallets WHERE address = ?
UpsSelect(p, address, api_data) ==
    /\ p \in Upserters
    /\ Idle(p)
    /\ arg' = [arg EXCEPT ![p] = [kind |-> "upsert", address |-> address,
                                  api_data |-> api_data]]
    /\ pc' = [pc EXCEPT ![p] =
                 IF ~HasWallet(db, address) THEN "ups_insert"
                 ELSE IF Truthy(api_data) THEN "ups_update" ELSE "ups_commit"]
    /\ failure' = NoArg
    /\ UNCHANGED nonLedgerVars
    /\ UNCHANGED <<db, pending, lock, snap, idx, before, now>>

\* INSERT INTO wallets (address, first_seen_at): address is the primary key,
\* so the statement raises IntegrityError when the row exists by now.
UpsInsert(p) ==
    /\ pc[p] = "ups_insert"
    /\ ~HasWallet(View(p), arg[p].address)
    /\ Write(p, [View(p) EXCEPT
                    !.wallets = @ \cup {NewWallet(arg[p].address, 0, 0)}])
    /\ pc' = [pc EXCEPT ![p] =
                 IF Truthy(arg[p].api_data) THEN "ups_update" ELSE "ups_commit"]
    /\ failure' = NoArg
    /\ UNCHANGED nonLedgerVars
    /\ UNCHANGED <<db, arg, snap, idx, now>>

\* The INSERT finds the row another caller committed after this call's
\* SELECT: sqlite3.IntegrityError (UNIQUE constraint failed: wallets.address)
\* leaves the method without commit.
UpsInsertConflict(p) ==
    /\ pc[p] = "ups_insert"
    /\ CanWrite(p)
    /\ HasWallet(View(p), arg[p].address)
    /\ db' = CloseWithoutCommit(db, View(p))
    /\ Release(p)
    /\ failure' = [kind |-> "IntegrityError", wrote |-> lock = p,
                   rows |-> 0, before |-> before[p]]
    /\ UNCHANGED <<now, nonLedgerVars>>

\* UPDATE wallets SET leaderboard_rank = ?, ..., last_api_fetch = ?
SetApiData(d, address, api_data, fetched_at) ==
    IF HasWallet(d, address)
    THEN [d EXCEPT !.wallets =
             (@ \ {Wallet(d, address)}) \cup
             {[Wallet(d, address) EXCEPT
                  !.leaderboard_rank = DictGet(api_data, "leaderboard_rank"),
                  !.leaderboard_pnl = DictGet(api_data, "pnl"),
                  !.leaderboard_volume = DictGet(api_data, "volume"),
                  !.api_trade_count = DictGet(api_data, "trade_count"),
                  !.last_api_fetch = Some(fetched_at)]}]
    ELSE d

UpsUpdate(p) ==
    /\ pc[p] = "ups_update"
    /\ Write(p, SetApiData(View(p), arg[p].address, arg[p].api_data,
                           IsoFormat(now)))
    /\ pc' = [pc EXCEPT ![p] = "ups_commit"]
    /\ failure' = NoArg
    /\ UNCHANGED nonLedgerVars
    /\ UNCHANGED <<db, arg, snap, idx, now>>

UpsCommit(p) ==
    /\ pc[p] = "ups_commit"
    /\ db' = Commit(db, View(p))
    /\ Release(p)
    /\ failure' = NoArg
    /\ UNCHANGED nonLedgerVars
    /\ UNCHANGED now

\* ----------------------------------------------------- failures, time
\* A statement raises (storage fault, "database is locked" after the busy
\* timeout, an exception of calculate_trade_pnl, IntegrityError) or the task
\* is cancelled at an await: the method is left without commit.
Fail(p) ==
    /\ ~Idle(p)
    /\ db' = CloseWithoutCommit(db, View(p))
    /\ Release(p)
    /\ failure' = [kind |-> arg[p].kind, wrote |-> lock = p,
                   rows |-> idx[p] - 1, before |-> before[p]]
    /\ UNCHANGED <<now, nonLedgerVars>>

NextTime(t) == IF t.us = 0 THEN [t EXCEPT !.us = 1] ELSE [d |-> t.d + 1, us |-> 0]

Tick ==
    /\ NextTime(now) \in Times
    /\ now' = NextTime(now)
    /\ failure' = NoArg
    /\ UNCHANGED nonLedgerVars
    /\ UNCHANGED <<db, pending, lock, pc, arg, snap, idx, before>>

\* ------------------------------------------------------ WalletEnricher
CACHE_TTL_HOURS == 24

\* a - b < timedelta(hours=h), for two datetimes of the clock: a day is 24
\* hours and the microseconds decide between two times a whole number of
\* days apart
ElapsedLess(a, b, h) ==
    \/ (a.d - b.d) * 24 < h
    \/ (a.d - b.d) * 24 = h /\ a.us < b.us

\* Database.get_wallet at time t: None, or the row as a dict with
\* api_data_fresh added
get_wallet_ignoring_age(d, address, t) ==
    IF ~HasWallet(d, address) THEN NULL
    ELSE Some(("api_data_fresh" :> (Wallet(d, address).last_api_fetch # NULL))
              @@ Wallet(d, address))

get_wallet(d, address, t) ==
    IF ~HasWallet(d, address) THEN NULL
    ELSE LET row == Wallet(d, address)
             fresh == IF row.last_api_fetch # NULL
                      THEN ElapsedLess(t, FromIsoFormat(Val(row.last_api_fetch)),
                                       CACHE_TTL_HOURS)
                      ELSE FALSE
         IN Some(("api_data_fresh" :> fresh) @@ row)

\* Database.upsert_wallet as one transaction, run at time t
upsert_wallet(d, address, api_data, t) ==
    LET created == IF HasWallet(d, address) THEN d
                   ELSE [d EXCEPT !.wallets = @ \cup {NewWallet(address, 0, 0)}]
    IN IF Truthy(api_data)
       THEN SetApiData(created, address, api_data, IsoFormat(t))
       ELSE created

\* What a GET ends with: a response with a status and a JSON body, or an
\* exception of the session
Http(status, data) == [outcome |-> "response", status |-> status, data |-> data]
Raised(kind) == [outcome |-> kind, status |-> 0, data |-> <<>>]
Failures == {Http(429, <<>>), Http(500, <<>>), Raised("timeout"), Raised("exception")}

\* /trades: the body is the list of the wallet's trades
TradesResponses == {Http(200, <<>>), Http(200, <<"t", "t">>)} \cup Failures

\* /v1/leaderboard: the body is a list of entries, empty when the wallet is
\* not on the leaderboard; an entry may lack its rank
LeaderboardEntries ==
    { [rank |-> Some(7), pnl |-> Some(100), vol |-> Some(200)],
      [pnl |-> Some(50), vol |-> Some(80)] }
LeaderboardResponses ==
    {Http(200, <<e>>) : e \in LeaderboardEntries} \cup {Http(200, <<>>)}
        \cup Failures

\* _fetch_trades: the list on a 200, None on anything else
_fetch_trades_empty_on_failure(r) ==
    IF r.outcome = "response" /\ r.status = 200 THEN Some(r.data) ELSE Some(<<>>)

_fetch_trades(r) ==
    IF r.outcome = "response" /\ r.status = 200 THEN Some(r.data) ELSE NULL

\* _fetch_leaderboard: the first entry of a non-empty 200 body, else None
_fetch_leaderboard(r) ==
    IF r.outcome = "response" /\ r.status = 200 /\ Len(r.data) > 0
    THEN Some(r.data[1]) ELSE NULL

\* api_data as enrich builds it from the two results (lines 71-83)
LeaderboardKeys(leaderboard) ==
    IF leaderboard # NULL
    THEN [leaderboard_rank |-> DictGet(Val(leaderboard), "rank"),
          pnl |-> DictGet(Val(leaderboard), "pnl"),
          volume |-> DictGet(Val(leaderboard), "vol")]
    ELSE <<>>

BuildApiData(trades, leaderboard) ==
    LeaderboardKeys(leaderboard)
      @@ [trade_count |-> IF trades = NULL THEN NULL ELSE Some(Len(Val(trades)))]

AllLookups == {"trades", "leaderboard"}

\* the wallet the enricher is called for
EnrichAddresses == {"w1"}

\* enrich up to its first return: get_wallet, and the cached dict when fresh
EnrichCall(address) ==
    /\ epc = "idle"
    /\ LET wallet == get_wallet(db, address, now)
           fresh == wallet # NULL /\ Val(wallet)["api_data_fresh"]
       IN /\ e_wallet' = wallet
          /\ epc' = IF fresh THEN "idle" ELSE "fetch"
          /\ e_ret' = IF fresh THEN wallet ELSE NULL
    /\ e_address' = address
    /\ e_start' = now
    /\ e_api' = <<>>
    /\ lookups' = {}
    /\ e_resp' = NoArg

EnrGetWallet(address) ==
    /\ EnrichCall(address)
    /\ UNCHANGED <<ledgerVars, nonEnrVars>>

\* asyncio.gather of the two lookups, and api_data built from the results
EnrFetch(tr, lb) ==
    /\ epc = "fetch"
    /\ lookups' = AllLookups
    /\ e_resp' = [trades |-> tr, leaderboard |-> lb]
    /\ e_api' = BuildApiData(_fetch_trades(tr), _fetch_leaderboard(lb))
    /\ epc' = "upsert"
    /\ UNCHANGED <<e_address, e_start, e_wallet, e_ret>>
    /\ UNCHANGED <<ledgerVars, nonEnrVars>>

\* upsert_wallet and the return of the merged dict (lines 86-95)
EnrUpsert ==
    /\ epc = "upsert"
    /\ lock = "none"
    /\ db' = upsert_wallet(db, e_address, e_api, now)
    /\ e_ret' = IF e_wallet # NULL
                THEN Some(("api_data_fresh" :> TRUE) @@ e_api @@ Val(e_wallet))
                ELSE Some(("api_data_fresh" :> TRUE) @@ e_api)
    /\ epc' = "idle"
    /\ failure' = NoArg
    /\ UNCHANGED <<e_address, e_start, e_wallet, e_api, lookups, e_resp>>
    /\ UNCHANGED <<pending, lock, pc, arg, snap, idx, before, now>>
    /\ UNCHANGED nonEnrVars

\* upsert_wallet raises: enrich has no handler and raises to its caller
EnrUpsertRaises ==
    /\ epc = "upsert"
    /\ epc' = "idle"
    /\ UNCHANGED <<e_address, e_start, e_wallet, e_api, lookups, e_resp, e_ret>>
    /\ UNCHANGED <<ledgerVars, nonEnrVars>>

\* ------------------------------------------------- calculate_trade_pnl
\* Sizes (tenths of a share) and prices (cents) of the calls checked
PnlSizes == {3, 5, 50, 100}
PnlPrices == {1, 30, 33, 60, 99}
PnlInputs ==
    [bet_outcome : {"YES", "NO"}, side : {"BUY", "SELL"}, size : PnlSizes,
     price : PnlPrices, resolved_outcome : {"YES", "NO"}]

CalculateTradePnl ==
    /\ pnl_args # NoArg
    /\ pnl_ret = NULL
    /\ \E r \in calculate_trade_pnl(pnl_args.bet_outcome, pnl_args.side,
                                    pnl_args.size, pnl_args.price,
                                    pnl_args.resolved_outcome) :
          pnl_ret' = Some(r)
    /\ UNCHANGED <<pnl_args, nonPnlVars>>

\* ------------------------------------------------------------ the feed
\* Numbers of a frame are in hundredths (sizes in hundredths of a share,
\* prices in cents); size * price and the threshold are in ten-thousandths
\* of a dollar.
RECONNECT_DELAY_BASE == 5
RECONNECT_DELAY_MAX == 60

Dollars(n) == n * 10000
\* whale_threshold: float = 10000
DefaultThreshold == Dollars(10000)
Thresholds == {DefaultThreshold, Dollars(500)}

\* A JSON value of a trade's "size" or "price" key
Number(v) == [type |-> "number", v |-> v]
String(s) == [type |-> "str", s |-> s]
Absent == [type |-> "absent"]

\* the value of a string of decimal digits
RECURSIVE Digits(_)
Digits(s) ==
    IF s = <<>> THEN 0
    ELSE Digits(SubSeq(s, 1, Len(s) - 1)) * 10 + (s[Len(s)] - 48)

\* float(s) of "ddd", "ddd.d" or "ddd.dd", in hundredths
Float(s) ==
    LET dots == {i \in 1..Len(s) : s[i] = 46}
    IN  IF dots = {} THEN Digits(s) * 100
        ELSE LET i == CHOOSE j \in dots : TRUE
                 frac == SubSeq(s, i + 1, Len(s))
             IN  Digits(SubSeq(s, 1, i - 1)) * 100
                   + (IF Len(frac) = 1 THEN Digits(frac) * 10 ELSE Digits(frac))

\* trade.get(key, 0), then float() if it is a str
Get(field) ==
    LET x == IF field.type = "absent" THEN Number(0) ELSE field
    IN  IF x.type = "str" THEN Float(x.s) ELSE x.v

trade_value(trade) == Get(trade.size) * Get(trade.price)

\* (the comparison with > in place of >=)
AboveThreshold(value, threshold) == value > threshold
\* if trade_value >= self.whale_threshold
IsWhale(value, threshold) == value >= threshold

\* 20000 @ 0.50 = 10000.00; 10101 @ 0.99 = 9999.99; the first again as
\* strings "20000" and "0.5"; 1000 @ 0.50 = 500.00; 499.99 @ 1.00 = 499.99;
\* a trade without "size"
FeedTrades ==
    {[size |-> Number(2000000), price |-> Number(50)],
     [size |-> Number(1010100), price |-> Number(99)],
     [size |-> String(<<50, 48, 48, 48, 48>>), price |-> String(<<48, 46, 53>>)],
     [size |-> Number(100000), price |-> Number(50)],
     [size |-> Number(49999), price |-> Number(100)],
     [size |-> Absent, price |-> Number(50)]}

\* The messages of the stream: text that is not JSON, a message of another
\* topic, trades messages whose payload is one trade, and one whose payload
\* is a list of two.
Messages ==
    {[json |-> FALSE],
     [json |-> TRUE, topic |-> "comments", type |-> "trades", payload |-> <<>>]}
    \cup {[json |-> TRUE, topic |-> "activity", type |-> "trades",
           payload |-> <<t>>] : t \in FeedTrades}
    \cup {[json |-> TRUE, topic |-> "activity", type |-> "trades",
           payload |-> <<[size |-> Number(1010100), price |-> Number(99)],
                         [size |-> Number(2000000), price |-> Number(50)]>>]}

\* _handle_message: the trades it passes to _process_trade, in order
\* (payload holds the trades of the message: a dict is one trade)
HandleMessage(data) ==
    IF data.topic # "activity" \/ data.type # "trades" THEN <<>>
    ELSE data.payload

\* the trades of a sequence that _process_trade hands to the callback
Whales(trades, threshold) ==
    LET Emits(t) == IsWhale(trade_value(t), threshold)
    IN  SelectSeq(trades, Emits)

\* float(s) raises ValueError for a str that is not a number (of the
\* spellings above: digits with at most one point)
IsNumber(s) ==
    /\ Len(s) > 0
    /\ \A i \in 1..Len(s) : s[i] \in (48..57) \cup {46}
    /\ Cardinality({i \in 1..Len(s) : s[i] = 46}) <= 1

\* _process_trade raises on this trade
ProcessRaises(trade) ==
    \E field \in {trade.size, trade.price} :
        field.type = "str" /\ ~IsNumber(field.s)

\* for trade in trades: await self._process_trade(trade), up to the first
\* trade it raises on: the trades it was called with, and those it returned
\* from
Raising(trades) == {i \in 1..Len(trades) : ProcessRaises(trades[i])}
FirstRaising(trades) ==
    CHOOSE i \in Raising(trades) : \A j \in Raising(trades) : i <= j
Called(trades) ==
    IF Raising(trades) = {} THEN trades
    ELSE SubSeq(trades, 1, FirstRaising(trades))
Completed(trades) ==
    IF Raising(trades) = {} THEN trades
    ELSE SubSeq(trades, 1, FirstRaising(trades) - 1)

\* how the handling of a message ends in _receive_loop: json.loads raises
\* JSONDecodeError, _handle_message raises, or it returns
FrameKind(message) ==
    IF ~message.json THEN "undecodable"
    ELSE IF Raising(HandleMessage(message)) # {} THEN "raised"
    ELSE "handled"

\* (a loop without the except clauses: the exception ends it)
EndsOnException(kind) == IF kind = "handled" THEN "running" ELSE "raised"
\* except json.JSONDecodeError / except Exception: logged, the loop goes on
AfterMessage(kind) == "running"

\* (the doubling without the cap)
DoubleDelay(delay) == delay * 2
\* min(self._reconnect_delay * 2, RECONNECT_DELAY_MAX)
NextDelay(delay) ==
    IF delay * 2 < RECONNECT_DELAY_MAX THEN delay * 2 ELSE RECONNECT_DELAY_MAX

\* The connection is open, or was closed: with a closing handshake ("ok")
\* or without one ("error"), by the server, the network, stop(), the data
\* timeout checker, or connect() leaving "async with"
NotClosed == [code |-> "none", by |-> "none", after |-> 0, frames |-> FALSE]
NoTasks == t_ping = "none" /\ t_recv = "none" /\ t_dog = "none"

CloseWs(by, code) ==
    /\ ws' = "closed"
    /\ closing' = IF ws = "open"
                  THEN [code |-> code, by |-> by, after |-> silence,
                        frames |-> conn_frames]
                  ELSE closing

\* connect(): self._running = True, and into the loop
Connect ==
    /\ fpc = "new"
    /\ _running' = TRUE
    /\ fpc' = "connecting"
    /\ UNCHANGED <<whale_threshold, ws, _reconnect_delay, _message_count,
                   _whale_count, on_whale_trade, processed, waits>>
    /\ UNCHANGED taskVars
    /\ UNCHANGED nonFeedVars

\* websockets.connect succeeds: self.ws = ws, the delay is reset
ConnectOk ==
    /\ fpc = "connecting"
    /\ ws' = "open"
    /\ _reconnect_delay' = RECONNECT_DELAY_BASE
    /\ fpc' = "subscribing"
    /\ waits' = <<>>
    /\ conn_frames' = FALSE
    /\ subscribed' = 0
    /\ silence0' = silence
    /\ frames' = <<>>
    /\ closing' = NotClosed
    /\ UNCHANGED <<whale_threshold, _running, _message_count, _whale_count,
                   on_whale_trade, processed>>
    /\ UNCHANGED <<t_ping, t_recv, t_dog, orphan_dog, silence>>
    /\ UNCHANGED nonFeedVars

\* websockets.connect raises: the except clauses log it
ConnectError ==
    /\ fpc = "connecting"
    /\ fpc' = "closed"
    /\ UNCHANGED <<whale_threshold, ws, _running, _reconnect_delay,
                   _message_count, _whale_count, on_whale_trade, processed, waits>>
    /\ UNCHANGED taskVars
    /\ UNCHANGED nonFeedVars

\* (a client that sends no subscription)
NotSent(n) == n
\* await self.ws.send(json.dumps(msg)): one more message sent
SentOnce(n) == n + 1

\* _subscribe: the subscription is sent, the three loops start; or the send
\* raises and the connection is left
Subscribe ==
    /\ fpc = "subscribing"
    /\ \/ /\ ws = "open"
          /\ fpc' = "streaming"
          /\ t_ping' = "running" /\ t_recv' = "running" /\ t_dog' = "running"
          /\ subscribed' = SentOnce(subscribed)
          /\ UNCHANGED <<ws, closing>>
       \/ /\ fpc' = "closed"
          /\ CloseWs("connect", "error")
          /\ UNCHANGED <<t_ping, t_recv, t_dog, subscribed>>
    /\ UNCHANGED <<orphan_dog, silence, conn_frames, frames, silence0>>
    /\ UNCHANGED <<whale_threshold, _running, _reconnect_delay, _message_count,
                   _whale_count, on_whale_trade, processed, waits>>
    /\ UNCHANGED nonFeedVars

\* _receive_loop: one message, through _handle_message and _process_trade
Receive(message) ==
    /\ fpc = "streaming"
    /\ ws = "open"
    /\ t_recv = "running"
    /\ _message_count < MaxMessages
    /\ silence' = 0
    /\ conn_frames' = TRUE
    /\ frames' = Append(frames, FrameKind(message))
    /\ t_recv' = AfterMessage(FrameKind(message))
    /\ silence0' = 0
    /\ UNCHANGED <<t_ping, t_dog, orphan_dog, closing, subscribed>>
    /\ _message_count' = _message_count + 1
    /\ LET trades == IF message.json THEN HandleMessage(message) ELSE <<>>
           whales == Whales(Completed(trades), whale_threshold)
       IN  /\ processed' = processed \o Called(trades)
           /\ on_whale_trade' = on_whale_trade \o whales
           /\ _whale_count' = _whale_count + Len(whales)
    /\ UNCHANGED <<whale_threshold, ws, _running, _reconnect_delay, fpc, waits>>
    /\ UNCHANGED nonFeedVars

\* The connection ends (closed by the server, by stop(), by the data timeout
\* checker, or a loop raises): gather returns or raises, the except clauses
\* log it
StreamEnd ==
    /\ fpc = "streaming"
    /\ fpc' = "closed"
    /\ CloseWs("connect", "ok")
    /\ t_ping' = "none" /\ t_recv' = "none" /\ t_dog' = "none"
    /\ UNCHANGED <<orphan_dog, silence, conn_frames, frames,
                   subscribed, silence0>>
    /\ UNCHANGED <<whale_threshold, _running, _reconnect_delay, _message_count,
                   _whale_count, on_whale_trade, processed, waits>>
    /\ UNCHANGED nonFeedVars

\* if self._running: await asyncio.sleep(self._reconnect_delay) begins
Sleep ==
    /\ fpc = "closed"
    /\ _running
    /\ Len(waits) < MaxWaits
    /\ fpc' = "sleeping"
    /\ waits' = Append(waits, _reconnect_delay)
    /\ UNCHANGED <<whale_threshold, ws, _running, _reconnect_delay,
                   _message_count, _whale_count, on_whale_trade, processed>>
    /\ UNCHANGED taskVars
    /\ UNCHANGED nonFeedVars

\* (a loop that ends after the first sleep)
ReturnAfterSleep(running) == "returned"
\* while self._running, tested after the sleep
AfterSleep(running) == IF running THEN "connecting" ELSE "returned"

\* the sleep ends: the delay is doubled up to the cap, and the loop tests
\* self._running
Wake ==
    /\ fpc = "sleeping"
    /\ _reconnect_delay' = NextDelay(_reconnect_delay)
    /\ fpc' = AfterSleep(_running)
    /\ UNCHANGED <<whale_threshold, ws, _running, _message_count, _whale_count,
                   on_whale_trade, processed, waits>>
    /\ UNCHANGED taskVars
    /\ UNCHANGED nonFeedVars

\* while self._running is false after the except clauses: connect() returns
Return ==
    /\ fpc = "closed"
    /\ ~_running
    /\ fpc' = "returned"
    /\ UNCHANGED <<whale_threshold, ws, _running, _reconnect_delay,
                   _message_count, _whale_count, on_whale_trade, processed, waits>>
    /\ UNCHANGED taskVars
    /\ UNCHANGED nonFeedVars

\* stop(): the flag is cleared and the connection, if there is one, closed
Stop ==
    /\ _running
    /\ _running' = FALSE
    /\ IF ws = "open" THEN CloseWs("stop", "ok") ELSE UNCHANGED <<ws, closing>>
    /\ UNCHANGED <<t_ping, t_recv, t_dog, orphan_dog, silence, conn_frames, frames,
                   subscribed, silence0>>
    /\ UNCHANGED <<whale_threshold, _reconnect_delay, _message_count,
                   _whale_count, fpc, on_whale_trade, processed, waits>>
    /\ UNCHANGED nonFeedVars

\* ---- the three loops of the gather, one by one
DATA_TIMEOUT == 300
CHECK_INTERVAL == 60

\* a check interval passes with no message
Elapse ==
    /\ silence < MaxSilence
    /\ silence' = silence + 1
    /\ UNCHANGED <<t_ping, t_recv, t_dog, orphan_dog, conn_frames, frames,
                   subscribed, silence0, closing>>
    /\ UNCHANGED <<feedVars, nonFeedVars>>

\* The server closes the connection with a closing handshake
PeerClose ==
    /\ fpc = "streaming"
    /\ ws = "open"
    /\ CloseWs("peer", "ok")
    /\ UNCHANGED <<t_ping, t_recv, t_dog, orphan_dog, silence, conn_frames, frames,
                   subscribed, silence0>>
    /\ UNCHANGED <<whale_threshold, _running, _reconnect_delay, _message_count,
                   _whale_count, fpc, on_whale_trade, processed, waits>>
    /\ UNCHANGED nonFeedVars

\* The connection breaks without one
ConnectionLost ==
    /\ fpc = "streaming"
    /\ ws = "open"
    /\ CloseWs("network", "error")
    /\ UNCHANGED <<t_ping, t_recv, t_dog, orphan_dog, silence, conn_frames, frames,
                   subscribed, silence0>>
    /\ UNCHANGED <<whale_threshold, _running, _reconnect_delay, _message_count,
                   _whale_count, fpc, on_whale_trade, processed, waits>>
    /\ UNCHANGED nonFeedVars

\* A step of one loop: nothing of the client changes but the loops
LoopStep ==
    /\ UNCHANGED <<whale_threshold, _running, _reconnect_delay, _message_count,
                   _whale_count, fpc, on_whale_trade, processed, waits>>
    /\ UNCHANGED <<silence, conn_frames, frames,
                   subscribed, silence0>>
    /\ UNCHANGED nonFeedVars

\* _ping_loop: self.ws.ping() raises on the closed connection; the loop logs
\* it and breaks.  (A ping on the open connection changes nothing.)
PingFail ==
    /\ t_ping = "running"
    /\ _running
    /\ ws = "closed"
    /\ t_ping' = "failed"
    /\ UNCHANGED <<ws, closing, t_recv, t_dog, orphan_dog>>
    /\ LoopStep

\* _ping_loop: while self._running and self.ws ends after stop()
PingExit ==
    /\ t_ping = "running"
    /\ ~_running
    /\ t_ping' = "done"
    /\ UNCHANGED <<ws, closing, t_recv, t_dog, orphan_dog>>
    /\ LoopStep

\* _receive_loop: "async for message in self.ws" ends when the connection was
\* closed with a handshake
RecvReturn ==
    /\ t_recv = "running"
    /\ ws = "closed"
    /\ closing.code = "ok"
    /\ t_recv' = "done"
    /\ UNCHANGED <<ws, closing, t_ping, t_dog, orphan_dog>>
    /\ LoopStep

\* _receive_loop: and raises ConnectionClosedError when it was closed without
RecvRaise ==
    /\ t_recv = "running"
    /\ ws = "closed"
    /\ closing.code = "error"
    /\ t_recv' = "raised"
    /\ UNCHANGED <<ws, closing, t_ping, t_dog, orphan_dog>>
    /\ LoopStep

\* (the test with half the window)
TimedOutEarly(n) == n * CHECK_INTERVAL > DATA_TIMEOUT \div 2
\* if elapsed > DATA_TIMEOUT
TimedOut(n) == n * CHECK_INTERVAL > DATA_TIMEOUT

\* _data_timeout_checker: a check that finds the timeout closes self.ws and
\* breaks.  (A check that does not changes nothing.)
WatchdogClose ==
    /\ t_dog = "running"
    /\ _running
    /\ TimedOut(silence)
    /\ CloseWs("watchdog", "ok")
    /\ t_dog' = "done"
    /\ UNCHANGED <<t_ping, t_recv, orphan_dog>>
    /\ LoopStep

\* _data_timeout_checker: while self._running and self.ws ends after stop()
WatchdogExit ==
    /\ t_dog = "running"
    /\ ~_running
    /\ t_dog' = "done"
    /\ UNCHANGED <<ws, closing, t_ping, t_recv, orphan_dog>>
    /\ LoopStep

\* A checker left over from a gather that raised: it tests and closes
\* self.ws, which by now is the connection of a later iteration
OrphanClose ==
    /\ orphan_dog
    /\ _running
    /\ TimedOut(silence)
    /\ CloseWs("watchdog", "ok")
    /\ orphan_dog' = FALSE
    /\ UNCHANGED <<t_ping, t_recv, t_dog>>
    /\ LoopStep

OrphanExit ==
    /\ orphan_dog
    /\ ~_running
    /\ orphan_dog' = FALSE
    /\ UNCHANGED <<ws, closing, t_ping, t_recv, t_dog>>
    /\ LoopStep

\* asyncio.gather returns when the three loops have returned; connect()
\* leaves "async with", which closes the connection
GatherReturn ==
    /\ fpc = "streaming"
    /\ t_ping \in {"done", "failed"}
    /\ t_recv = "done"
    /\ t_dog = "done"
    /\ fpc' = "closed"
    /\ CloseWs("connect", "ok")
    /\ t_ping' = "none" /\ t_recv' = "none" /\ t_dog' = "none"
    /\ UNCHANGED <<orphan_dog, silence, conn_frames, frames,
                   subscribed, silence0>>
    /\ UNCHANGED <<whale_threshold, _running, _reconnect_delay, _message_count,
                   _whale_count, on_whale_trade, processed, waits>>
    /\ UNCHANGED nonFeedVars

\* asyncio.gather raises as soon as a loop raises, and does not cancel the
\* others: connect() logs the exception; a checker still running stays
GatherRaise ==
    /\ fpc = "streaming"
    /\ t_recv = "raised"
    /\ fpc' = "closed"
    /\ CloseWs("connect", "error")
    /\ orphan_dog' = (orphan_dog \/ t_dog = "running")
    /\ t_ping' = "none" /\ t_recv' = "none" /\ t_dog' = "none"
    /\ UNCHANGED <<silence, conn_frames, frames,
                   subscribed, silence0>>
    /\ UNCHANGED <<whale_threshold, _running, _reconnect_delay, _message_count,
                   _whale_count, on_whale_trade, processed, waits>>
    /\ UNCHANGED nonFeedVars

\* ------------------------------------------------------- specification
\* --------------------------------------------------- ResolutionTracker
\* The price at or above which _extract_resolution takes an outcome as the
\* winner: 0.99, in hundredths
CertainPrice == 99

\* A key of the market object: NULL when the key is missing (or null), else
\* Some(value).  Python truth of a flag and of a string:
TrueFlag(x) == x # NULL /\ Val(x)
NonEmptyText(x) == x # NULL /\ Val(x) # ""

\* float(price) of an element of outcomePrices, in hundredths: NULL where
\* float() raises (None: TypeError; a string that is no number: ValueError)
ParsePrice(x) ==
    IF x.type = "number" THEN Some(x.v)
    ELSE IF x.type = "str"
              /\ x.s # <<>>
              /\ (\A i \in 1..Len(x.s) : x.s[i] \in (48..57) \cup {46})
              /\ Cardinality({j \in 1..Len(x.s) : x.s[j] = 46}) <= 1
              /\ x.s # <<46>>
         THEN Some(Float(x.s))
         ELSE NULL

\* for i, price in enumerate(prices): the first index whose price is a
\* number >= 0.99 and at which outcomes has an element
RECURSIVE PriceLoop(_, _, _)
PriceLoop(prices, outcomes, i) ==
    IF i > Len(prices) THEN NULL
    ELSE IF /\ ParsePrice(prices[i]) # NULL
            /\ Val(ParsePrice(prices[i])) >= CertainPrice
            /\ i <= Len(outcomes)
         THEN Some(outcomes[i])
         ELSE PriceLoop(prices, outcomes, i + 1)

\* market.get(key, []) of a list-valued key
GetList(x) == IF x = NULL THEN <<>> ELSE Val(x)

\* (the chain without the test of the closed and resolved flags)
_extract_resolution_ungated(market) ==
    IF NonEmptyText(market.outcome) THEN market.outcome
    ELSE LET outcomes == GetList(market.outcomes)
             prices == GetList(market.outcomePrices)
             winner == IF prices # <<>> /\ outcomes # <<>>
                       THEN PriceLoop(prices, outcomes, 1) ELSE NULL
         IN  IF winner # NULL THEN winner
             ELSE market.resolvedOutcome

\* (the chain with the alternate field tried before the prices)
_extract_resolution_alternate_first(market) ==
    IF ~(TrueFlag(market.closed) \/ TrueFlag(market.resolved)) THEN NULL
    ELSE IF NonEmptyText(market.outcome) THEN market.outcome
    ELSE IF NonEmptyText(market.resolvedOutcome) THEN market.resolvedOutcome
    ELSE IF GetList(market.outcomePrices) # <<>> /\ GetList(market.outcomes) # <<>>
         THEN PriceLoop(GetList(market.outcomePrices), GetList(market.outcomes), 1)
         ELSE NULL

_extract_resolution(market) ==
    IF ~(TrueFlag(market.closed) \/ TrueFlag(market.resolved)) THEN NULL
    ELSE IF NonEmptyText(market.outcome) THEN market.outcome
    ELSE LET outcomes == GetList(market.outcomes)
             prices == GetList(market.outcomePrices)
             winner == IF prices # <<>> /\ outcomes # <<>>
                       THEN PriceLoop(prices, outcomes, 1) ELSE NULL
         IN  IF winner # NULL THEN winner
             ELSE IF NonEmptyText(market.resolvedOutcome)
                  THEN market.resolvedOutcome
                  ELSE NULL

\* A whole resolve_trades call that nothing interrupts, from database d:
\* the database it commits and the number it returns.
RECURSIVE SettleRows(_, _, _)
SettleRows(d, rows, resolved_outcome) ==
    IF rows = <<>> THEN d
    ELSE SettleRows(UpdateWalletStats(UpdateTrade(d, Head(rows), resolved_outcome),
                                      Head(rows), resolved_outcome),
                    Tail(rows), resolved_outcome)

resolve_trades(d, condition_id, resolved_outcome) ==
    LET trades == FetchAll(UnresolvedTrades(d, condition_id))
    IN  [db |-> SettleRows(d, trades, resolved_outcome), n |-> Len(trades)]

Resolvable(d, condition_id) ==
    \A t \in UnresolvedTrades(d, condition_id) : ~PnlRaises(t)

\* Database.get_unresolved_trades: SELECT DISTINCT condition_id,
\* event_slug, market_title FROM whale_trades WHERE trade_won IS NULL.  The
\* rows of the result, which DISTINCT makes a set
get_unresolved_trades(trades) ==
    {[condition_id |-> t.condition_id, event_slug |-> t.event_slug,
      market_title |-> t.market_title] :
         t \in {u \in trades : u.trade_won = NULL}}

\* The ledger above keeps one slug and one title for each market (its
\* rows carry neither column): the markets of the rows returned,
\* market["condition_id"]
WithMarketText(t) ==
    [condition_id |-> t.condition_id, event_slug |-> t.condition_id,
     market_title |-> t.condition_id, trade_won |-> t.trade_won]
UnresolvedMarkets(d) ==
    {row.condition_id :
         row \in get_unresolved_trades({WithMarketText(t) : t \in d.trades})}

\* The rows of whale_trades the call is checked on: two markets; in m1 two
\* unsettled rows alike, one whose frame carried another title, one settled;
\* in m2 one unsettled, one with another slug, one settled
QueryRow(id, condition_id, event_slug, market_title, trade_won) ==
    [id |-> id, condition_id |-> condition_id, event_slug |-> event_slug,
     market_title |-> market_title, trade_won |-> trade_won]
QueryRows ==
    { QueryRow(1, "m1", "s1", "Will A win?", NULL),
      QueryRow(2, "m1", "s1", "Will A win?", NULL),
      QueryRow(3, "m1", "s1", "Will A win the cup?", NULL),
      QueryRow(4, "m1", "s1", "Will A win?", Some(TRUE)),
      QueryRow(5, "m2", "s2", "Will B win?", NULL),
      QueryRow(6, "m2", "s2b", "Will B win?", NULL),
      QueryRow(7, "m2", "s2", "Will B win?", Some(FALSE)) }

NoQuery == [returned |-> FALSE, rows |-> {}]
\* unresolved = await self.db.get_unresolved_trades()
GetUnresolvedTrades ==
    /\ ~q_ret.returned
    /\ q_ret' = [returned |-> TRUE, rows |-> get_unresolved_trades(q_trades)]
    /\ UNCHANGED q_trades
    /\ UNCHANGED <<ledgerVars, feedVars, taskVars, pnlVars, enrVars, extVars,
                   cycVars, hwtVars, mainVars, srcVars>>

\* The SELECT has no ORDER BY: the rows come in any order
Orders(S) ==
    {q \in [1..Cardinality(S) -> S] : {q[k] : k \in 1..Cardinality(S)} = S}

\* What the resolution source answers for a market: a market object that
\* is resolved (by its outcome field, or by its prices), one that is closed
\* with nothing to read the outcome from, an empty list, an error status, a
\* timeout of the session, another exception
NoMarket ==
    [closed |-> NULL, resolved |-> NULL, outcome |-> NULL, outcomes |-> NULL,
     outcomePrices |-> NULL, resolvedOutcome |-> NULL]
SourceResponses ==
    { Http(200, <<[NoMarket EXCEPT !.closed = Some(TRUE), !.outcome = Some("Yes")]>>),
      Http(200, <<[NoMarket EXCEPT !.resolved = Some(TRUE),
                                   !.outcomes = Some(<<"Yes", "No">>),
                                   !.outcomePrices = Some(<<Number(0), Number(100)>>)]>>),
      Http(200, <<[NoMarket EXCEPT !.closed = Some(TRUE)]>>),
      Http(200, <<>>),
      Http(500, <<>>),
      Raised("timeout"),
      Raised("exception") }

\* (a lookup that answers "Yes" where the source gave nothing)
_fetch_market_resolution_guessing(r) ==
    IF r.outcome = "response" /\ r.status = 200 /\ r.data # <<>>
    THEN _extract_resolution(r.data[1])
    ELSE Some("Yes")

\* _fetch_market_resolution: None on an exception, on a status other than
\* 200 and on an empty list; else what the first market object yields
_fetch_market_resolution(r) ==
    IF r.outcome # "response" THEN NULL
    ELSE IF r.status # 200 THEN NULL
    ELSE IF r.data = <<>> THEN NULL
    ELSE _extract_resolution(r.data[1])

\* (a loop that stops at the first market without resolution)
LoopStopsOnFailure(resolution, i, queue) ==
    IF resolution # NULL /\ i < Len(queue) THEN "loop" ELSE "idle"

\* for market in unresolved: whatever the lookup gave, the loop goes on to
\* the next market, and the method returns after the last one
LoopNext(resolution, i, queue) == IF i < Len(queue) THEN "loop" ELSE "idle"

\* The source gave no outcome: an exception or timeout, a status other than
\* 200, an empty list, or a market object no outcome can be read from
GaveNothing(r) ==
    \/ r.outcome # "response"
    \/ r.status # 200
    \/ r.data = <<>>
    \/ _extract_resolution(r.data[1]) = NULL

\* The markets of a cycle's lookups for which the source gave no outcome
WithoutOutcome(log) ==
    {log[k].market : k \in {j \in 1..Len(log) : GaveNothing(log[j].response)}}

\* check_resolutions up to the loop: the work queue, or return 0 when empty
CycBegin ==
    /\ cpc = "idle"
    /\ \E q \in Orders(UnresolvedMarkets(db)) :
          /\ c_queue' = q
          /\ cpc' = IF q = <<>> THEN "idle" ELSE "loop"
    /\ c_i' = 1
    /\ c_count' = 0
    /\ c_log' = <<>>
    /\ c_db0' = db
    /\ c_prev' = WithoutOutcome(c_log)
    /\ UNCHANGED ledgerVars
CycStart == CycBegin /\ UNCHANGED nonCycVars

\* One iteration: the lookup of the market, resolve_trades when it gave an
\* outcome, and the step to the next market
CycLookup(r) ==
    /\ cpc = "loop"
    /\ LET market == c_queue[c_i]
           resolution == _fetch_market_resolution(r)
       IN  /\ IF resolution # NULL
              THEN /\ lock = "none"
                   /\ Resolvable(db, market)
                   /\ db' = resolve_trades(db, market, Val(resolution)).db
                   /\ c_count' = c_count
                                   + resolve_trades(db, market, Val(resolution)).n
              ELSE UNCHANGED <<db, c_count>>
           /\ c_log' = Append(c_log, [market |-> market, response |-> r])
           /\ cpc' = LoopNext(resolution, c_i, c_queue)
    /\ c_i' = c_i + 1
    /\ failure' = NoArg
    /\ UNCHANGED <<c_queue, c_db0, c_prev>>
    /\ UNCHANGED <<pending, lock, pc, arg, snap, idx, before, now>>
    /\ UNCHANGED nonCycVars

\* Market objects of the calls checked.  "0.99" and "x" as ASCII codes.
PriceLists ==
    { <<>>,
      <<Number(100), Number(0)>>,
      <<Number(0), Number(100)>>,
      <<String(<<48, 46, 57, 57>>), Number(1)>>,
      <<Number(98), Number(2)>>,
      <<String(<<120>>), Number(99)>>,
      <<Absent, Number(100)>>,
      <<Number(99), Number(100)>>,
      <<Number(0), Number(0), Number(100)>> }

MarketObjects ==
    [closed : {NULL, Some(FALSE), Some(TRUE)},
     resolved : {NULL, Some(TRUE)},
     outcome : {NULL, Some(""), Some("Yes")},
     outcomes : {NULL, Some(<<>>), Some(<<"Yes", "No">>)},
     outcomePrices : {NULL} \cup {Some(l) : l \in PriceLists},
     resolvedOutcome : {NULL, Some(""), Some("No")}]

ExtractResolution ==
    /\ ~ext_ret.returned
    /\ ext_ret' = [returned |-> TRUE, value |-> _extract_resolution(ext_market)]
    /\ UNCHANGED <<ext_market, nonExtVars>>

\* ------------------------------------------------- handle_whale_trade
nonHwtVars ==
    <<feedVars, taskVars, pnlVars, extVars, cycVars, mainVars, srcVars,
      qryVars>>

\* Whale trades as the feed hands them to the callback: the dict of the
\* frame, with size and price as numbers, as numeric strings ("20000" and
\* "0.5"), and a trade without proxyWallet.  20000 shares at 0.50.
NumbersEvent ==
    [proxyWallet |-> Some("w1"), conditionId |-> "m1", outcome |-> Some("Yes"),
     side |-> "BUY", size |-> Number(2000000), price |-> Number(50)]
StringsEvent ==
    [proxyWallet |-> Some("w1"), conditionId |-> "m1", outcome |-> Some("Yes"),
     side |-> "BUY", size |-> String(<<50, 48, 48, 48, 48>>),
     price |-> String(<<48, 46, 53>>)]
NoWalletEvent ==
    [proxyWallet |-> NULL, conditionId |-> "m1", outcome |-> Some("Yes"),
     side |-> "BUY", size |-> Number(2000000), price |-> Number(50)]
WhaleEvents == {NumbersEvent, StringsEvent, NoWalletEvent}

\* trade.get("size", 0) * trade.get("price", 0) and the f"{trade_value:,.0f}"
\* of the log line, outside the try: a str times a str or a float is a
\* TypeError, a str times an int is a str, which the format raises
\* ValueError on
TradeValueRaises(trade) == trade.size.type = "str" \/ trade.price.type = "str"

\* The dict handed to record_whale_trade, in the units of the ledger (sizes
\* in tenths of a share): the values of the frame as they are
LedgerTrade(trade) ==
    [wallet_address |-> Val(trade.proxyWallet),
     condition_id |-> trade.conditionId, outcome |-> trade.outcome,
     side |-> trade.side, size |-> trade.size.v \div 10,
     price |-> trade.price.v]

\* d.get(k, default): the default only when the dict has no such key
GetDefault(d, k, default) == IF k \in DOMAIN d THEN d[k] ELSE default

\* (the counters taken from what enrich returned, before the trade was
\* recorded)
CombinedStatsBeforeRecord(wallet_stats, wallet_data) ==
    [trade_count |-> GetDefault(wallet_stats, "trade_count", Some(0)),
     leaderboard_rank |-> DictGet(wallet_stats, "leaderboard_rank"),
     pnl |-> DictGet(wallet_stats, "pnl"),
     volume |-> DictGet(wallet_stats, "volume"),
     total_whale_trades |-> GetDefault(wallet_stats, "total_whale_trades", 0),
     wins |-> GetDefault(wallet_stats, "wins", 0),
     losses |-> GetDefault(wallet_stats, "losses", 0),
     realized_pnl |-> GetDefault(wallet_stats, "realized_pnl", 0)]

\* combined_stats (lines 171-183)
CombinedStats(wallet_stats, wallet_data) ==
    [trade_count |-> GetDefault(wallet_stats, "trade_count", Some(0)),
     leaderboard_rank |-> DictGet(wallet_stats, "leaderboard_rank"),
     pnl |-> DictGet(wallet_stats, "pnl"),
     volume |-> DictGet(wallet_stats, "volume"),
     total_whale_trades |->
         IF wallet_data # NULL THEN Val(wallet_data).total_whale_trades ELSE 0,
     wins |-> IF wallet_data # NULL THEN Val(wallet_data).wins ELSE 0,
     losses |-> IF wallet_data # NULL THEN Val(wallet_data).losses ELSE 0,
     realized_pnl |->
         IF wallet_data # NULL THEN Val(wallet_data).realized_pnl ELSE 0]

\* (the flag without the test for None)
NewWalletUnlessMany(wallet_stats) ==
    LET first == DictGet(wallet_stats, "trade_count")
        trade_count == IF first = NULL
                       THEN DictGet(wallet_stats, "api_trade_count")
                       ELSE first
    IN  trade_count = NULL \/ Val(trade_count) < 10

\* _build_flags: whether a NEW WALLET flag is among the flags
NewWalletFlag(wallet_stats) ==
    LET first == DictGet(wallet_stats, "trade_count")
        trade_count == IF first = NULL
                       THEN DictGet(wallet_stats, "api_trade_count")
                       ELSE first
    IN  IF trade_count # NULL
        THEN Val(trade_count) = 0 \/ Val(trade_count) < 10
        ELSE FALSE

\* How send_alert ends: the webhook answers 204, another status, the post
\* raises (both caught in send_alert, which returns False), or building the
\* embed raises, which handle_whale_trade catches
AlertResults == {"204", "status", "exception", "raised"}

\* The lookups of the scanner's runs: two trades, ten trades, a 500 and a
\* timeout; a leaderboard entry, a 429 and an exception
TenTrades == [i \in 1..10 |-> "t"]
ScannerTrades ==
    {Http(200, <<"t", "t">>), Http(200, TenTrades), Http(500, <<>>),
     Raised("timeout")}
ScannerLeaderboard ==
    {Http(200, <<[rank |-> Some(7), pnl |-> Some(100), vol |-> Some(200)]>>),
     Http(429, <<>>), Raised("exception")}

\* What is kept of an event: the trade, the calls made for it in order, the
\* lookups of enrich and what it returned, the ledger's sequence number at
\* the call of record_whale_trade and the id of the row it committed, the
\* call that raised for a reason of the storage, combined_stats, how the
\* alert ended and whether it carried the NEW WALLET flag
NewEvent(trade) ==
    [trade |-> trade, steps |-> <<>>, lookups |-> [kind |-> "none"],
     enriched |-> NULL, seq0 |-> 0, row |-> 0, fault |-> "none",
     stats |-> NULL, alert |-> "none", flagged |-> FALSE, end |-> "running"]
NoEvent == NewEvent(NoWalletEvent)

\* the handling of the event ends: handle_whale_trade returns, or raises
EndEvent(ev, how) ==
    /\ h_events' = Append(h_events, [ev EXCEPT !.end = how])
    /\ h_ev' = NoEvent
    /\ h_stats' = <<>>

\* (a handler that gives up when the trade count is unknown)
EnrichRaisedOrUnknown(ret) ==
    ret = NULL \/ DictGet(Val(ret), "trade_count") = NULL
\* except Exception: enrich raised
EnrichRaised(ret) == ret = NULL

\* (a handler that stops after an alert that failed)
StopsOnAlertFailure(result) == IF result = "204" THEN "idle" ELSE "stopped"
\* send_alert returned True or False, or the except clause logged the
\* exception: handle_whale_trade returns
AfterAlert(result) == "idle"

\* handle_whale_trade up to the try: no wallet, the trade value and the log
\* line.  The trade is one the feed has emitted.
HwtStart(trade) ==
    /\ hpc = "idle"
    /\ Len(h_events) < MaxEvents
    /\ IsWhale(trade_value(trade), whale_threshold)
    /\ IF trade.proxyWallet = NULL
       THEN EndEvent(NewEvent(trade), "no_wallet") /\ hpc' = "idle"
       ELSE IF TradeValueRaises(trade)
       THEN EndEvent(NewEvent(trade), "raised") /\ hpc' = "idle"
       ELSE /\ hpc' = "enrich"
            /\ h_ev' = NewEvent(trade)
            /\ UNCHANGED <<h_stats, h_events>>
    /\ UNCHANGED <<ledgerVars, enrVars, nonHwtVars>>

\* wallet_stats = await self.enricher.enrich(wallet): the call
HwtEnrich ==
    /\ hpc = "enrich"
    /\ EnrichCall(Val(h_ev.trade.proxyWallet))
    /\ hpc' = "enriching"
    /\ h_ev' = [h_ev EXCEPT !.steps = Append(@, "enrich")]
    /\ UNCHANGED <<h_stats, h_events>>
    /\ UNCHANGED <<ledgerVars, nonHwtVars>>

\* ... and its end: the dict it returned, or the exception it raised, which
\* the except clause logs
HwtEnriched ==
    /\ hpc = "enriching"
    /\ epc = "idle"
    /\ LET ev == [h_ev EXCEPT
                     !.lookups =
                         IF lookups = {} THEN [kind |-> "cached"]
                         ELSE [kind |-> "fetched", trades |-> e_resp.trades,
                               leaderboard |-> e_resp.leaderboard],
                     !.enriched = e_ret,
                     !.fault = IF e_ret = NULL THEN "enrich" ELSE "none"]
       IN  IF EnrichRaised(e_ret)
           THEN EndEvent(ev, "error") /\ hpc' = "idle"
           ELSE /\ hpc' = "record"
                /\ h_stats' = Val(e_ret)
                /\ h_ev' = ev
                /\ UNCHANGED h_events
    /\ UNCHANGED <<ledgerVars, enrVars, nonHwtVars>>

\* await self.db.record_whale_trade({...}): the call
HwtRecord ==
    /\ hpc = "record"
    /\ RecordCall("ingest", LedgerTrade(h_ev.trade), MaxEvents)
    /\ hpc' = "recording"
    /\ h_ev' = [h_ev EXCEPT !.steps = Append(@, "record"), !.seq0 = db.seq]
    /\ UNCHANGED <<h_stats, h_events>>
    /\ UNCHANGED <<enrVars, nonHwtVars>>

\* ... and its end: it returned after the commit, or raised
HwtRecorded ==
    /\ hpc = "recording"
    /\ Idle("ingest")
    /\ IF db.seq = h_ev.seq0
       THEN EndEvent([h_ev EXCEPT !.fault = "record"], "error") /\ hpc' = "idle"
       ELSE /\ hpc' = "reread"
            /\ h_ev' = [h_ev EXCEPT !.row = db.seq]
            /\ UNCHANGED <<h_stats, h_events>>
    /\ UNCHANGED <<ledgerVars, enrVars, nonHwtVars>>

\* wallet_data = await self.db.get_wallet(wallet), and combined_stats
HwtReread ==
    /\ hpc = "reread"
    /\ LET wallet_data == get_wallet(db, Val(h_ev.trade.proxyWallet), now)
       IN  h_ev' = [h_ev EXCEPT
                       !.steps = Append(@, "get_wallet"),
                       !.stats = Some(CombinedStats(h_stats, wallet_data))]
    /\ hpc' = "alert"
    /\ UNCHANGED <<h_stats, h_events>>
    /\ UNCHANGED <<ledgerVars, enrVars, nonHwtVars>>

\* await self.alerter.send_alert(trade, combined_stats), of a scanner with a
\* webhook
HwtAlert(result) ==
    /\ hpc = "alert"
    /\ EndEvent([h_ev EXCEPT !.steps = Append(@, "alert"),
                             !.alert = result,
                             !.flagged = NewWalletFlag(Val(h_ev.stats))],
                IF result = "raised" THEN "error" ELSE "done")
    /\ hpc' = AfterAlert(result)
    /\ UNCHANGED <<ledgerVars, enrVars, nonHwtVars>>

\* WhaleScanner.__init__: nothing handled yet
InitScanner ==
    /\ hpc = "idle"
    /\ h_ev = NoEvent
    /\ h_stats = <<>>
    /\ h_events = <<>>

\* ------------------------------------------------- WhaleScanner.start
nonMainVars ==
    <<ledgerVars, feedVars, taskVars, pnlVars, enrVars, extVars, cycVars,
      hwtVars, srcVars, qryVars>>

\* self._tasks: ws_client.connect(), run_resolution_tracker() and
\* periodic_stats_log()
TaskNames == {"connect", "run_resolution_tracker", "periodic_stats_log"}
Sessions == {"enricher", "alerter", "resolution_tracker"}

\* The loop of each task as the points where it awaits: connect() connects,
\* streams and sleeps the backoff; run_resolution_tracker sleeps 60 s, checks
\* and sleeps the interval; periodic_stats_log sleeps and logs
FirstPoint(t) ==
    CASE t = "connect" -> "connecting"
      [] t = "run_resolution_tracker" -> "first_sleep"
      [] t = "periodic_stats_log" -> "sleep"
NextPoint(t, at) ==
    CASE at = "connecting" -> "streaming"
      [] at = "streaming" -> "backoff"
      [] at = "backoff" -> "connecting"
      [] at = "first_sleep" -> "check"
      [] at = "check" -> "interval_sleep"
      [] at = "interval_sleep" -> "check"
      [] at = "sleep" -> "log"
      [] at = "log" -> "sleep"
\* the points at which the loop tests its flag
TestsFlag(t, at) ==
    CASE t = "connect" -> at \in {"streaming", "backoff"}
      [] t = "run_resolution_tracker" -> at \in {"first_sleep", "interval_sleep"}
      [] t = "periodic_stats_log" -> at = "log"
\* while self._running (connect), while not self._shutdown (the two others)
FlagCleared(t) ==
    IF t = "connect" THEN "ws_client" \in stop_calls ELSE _shutdown

\* A task goes on to its next await, or returns when its flag is cleared
LoopGoesOn(t) ==
    /\ _tasks[t] = "running"
    /\ IF TestsFlag(t, loop_at[t]) /\ FlagCleared(t)
       THEN /\ _tasks' = [_tasks EXCEPT ![t] = "returned"]
            /\ UNCHANGED loop_at
       ELSE /\ loop_at' = [loop_at EXCEPT ![t] = NextPoint(t, @)]
            /\ UNCHANGED _tasks
    /\ UNCHANGED <<spc, _shutdown, stop_calls, open_sessions, signalled>>
    /\ UNCHANGED nonMainVars

\* An exception leaves the task's coroutine
LoopRaises(t) ==
    /\ _tasks[t] = "running"
    /\ _tasks' = [_tasks EXCEPT ![t] = "raised"]
    /\ UNCHANGED <<spc, loop_at, _shutdown, stop_calls, open_sessions, signalled>>
    /\ UNCHANGED nonMainVars

\* handle_signal: the flag, ws_client.stop() and task.cancel() for every
\* task that is not done.  cancel() is a request: CancelledError is thrown
\* into the task when the event loop runs it next
HandleSignal ==
    /\ spc = "gather"
    /\ _shutdown' = TRUE
    /\ stop_calls' = stop_calls \cup {"ws_client"}
    /\ _tasks' = [t \in TaskNames |->
                     IF _tasks[t] = "running" THEN "cancelling" ELSE _tasks[t]]
    /\ signalled' = TRUE
    /\ UNCHANGED <<spc, loop_at, open_sessions>>
    /\ UNCHANGED nonMainVars

\* The CancelledError has gone through the task's coroutine (for connect():
\* through its gather and the close of "async with"): the task is done
TaskCancelled(t) ==
    /\ _tasks[t] = "cancelling"
    /\ _tasks' = [_tasks EXCEPT ![t] = "cancelled"]
    /\ UNCHANGED <<spc, loop_at, _shutdown, stop_calls, open_sessions, signalled>>
    /\ UNCHANGED nonMainVars

\* await asyncio.gather(*self._tasks) ends: a task raised or was cancelled,
\* or all have returned
GatherEnds(tasks) ==
    \/ \E t \in TaskNames : tasks[t] \in {"raised", "cancelled"}
    \/ \A t \in TaskNames : tasks[t] = "returned"

\* start() leaves the gather; finally: await self.cleanup(), up to the
\* first close
Cleanup ==
    /\ spc = "gather"
    /\ GatherEnds(_tasks)
    /\ _shutdown' = TRUE
    /\ stop_calls' = stop_calls \cup {"ws_client", "resolution_tracker"}
    /\ spc' = "cleanup"
    /\ UNCHANGED <<_tasks, loop_at, open_sessions, signalled>>
    /\ UNCHANGED nonMainVars

\* await self.enricher.close(); await self.alerter.close();
\* await self.resolution_tracker.close(): one after the other
CloseOrder == <<"enricher", "alerter", "resolution_tracker">>
CloseNext ==
    /\ spc = "cleanup"
    /\ LET k == 1 + Len(CloseOrder) - Cardinality(open_sessions)
       IN  /\ open_sessions' = open_sessions \ {CloseOrder[k]}
           /\ spc' = IF k = Len(CloseOrder) THEN "ended" ELSE spc
    /\ UNCHANGED <<_tasks, loop_at, _shutdown, stop_calls, signalled>>
    /\ UNCHANGED nonMainVars

\* start() has returned or raised, main() with it: asyncio.run cancels the
\* tasks that are left and closes the event loop
RunEnds ==
    /\ spc = "ended"
    /\ \E t \in TaskNames : _tasks[t] \in {"running", "cancelling"}
    /\ _tasks' = [t \in TaskNames |->
                     IF _tasks[t] \in {"running", "cancelling"}
                     THEN "cancelled" ELSE _tasks[t]]
    /\ UNCHANGED <<spc, loop_at, _shutdown, stop_calls, open_sessions, signalled>>
    /\ UNCHANGED nonMainVars

\* start() up to the gather: the sessions are open, the tasks created
InitMain ==
    /\ spc = "gather"
    /\ _tasks = [t \in TaskNames |-> "running"]
    /\ loop_at = [t \in TaskNames |-> FirstPoint(t)]
    /\ _shutdown = FALSE
    /\ stop_calls = {}
    /\ open_sessions = Sessions
    /\ signalled = FALSE

\* ----------------------------------------- run_resolution_tracker
nonTrackerVars ==
    <<feedVars, taskVars, pnlVars, enrVars, extVars, hwtVars, qryVars>>
Tracker == "run_resolution_tracker"
TrackerAt(at) == _tasks[Tracker] = "running" /\ loop_at[Tracker] = at
TrackerMoves(at) ==
    /\ loop_at' = [loop_at EXCEPT ![Tracker] = at]
    /\ UNCHANGED <<spc, _tasks, _shutdown, stop_calls, open_sessions, signalled>>

\* A market resolves: from now on the source reports its outcome (the one
\* SourceReports gives it) at every lookup
SourceResolves(m) ==
    /\ m \notin reported
    /\ reported' = reported \cup {m}
    /\ UNCHANGED <<ledgerVars, cycVars, mainVars, nonTrackerVars>>

\* What the source answers on a lookup of a market: its outcome once it
\* reports it resolved; before that an open market, an empty list, an error
\* status, a timeout or another exception
Answers(m) ==
    IF m \in reported
    THEN {r \in SourceResponses :
             \E rep \in SourceReports :
                 rep[1] = m /\ _fetch_market_resolution(r) = Some(rep[2])}
    ELSE {r \in SourceResponses : GaveNothing(r)}

\* await asyncio.sleep(...) ends; while not self._shutdown: the task returns,
\* or check_resolutions starts
TrkWake ==
    /\ \/ TrackerAt("first_sleep")
       \/ TrackerAt("interval_sleep")
    /\ IF _shutdown
       THEN /\ _tasks' = [_tasks EXCEPT ![Tracker] = "returned"]
            /\ UNCHANGED <<spc, loop_at, _shutdown, stop_calls, open_sessions,
                           signalled>>
            /\ UNCHANGED <<ledgerVars, cycVars>>
       ELSE /\ CycBegin
            /\ TrackerMoves(NextPoint(Tracker, loop_at[Tracker]))
    /\ UNCHANGED <<srcVars, nonTrackerVars>>

\* (the loop without "if not condition_id: continue": the row without
\* market identifier is looked up like any other)
TrkLookupWithoutId ==
    /\ TrackerAt("check")
    /\ cpc = "loop"
    /\ c_queue[c_i] = ""
    /\ \E r \in SourceResponses : CycLookup(r)

\* if not condition_id: continue
TrkSkip ==
    /\ TrackerAt("check")
    /\ cpc = "loop"
    /\ c_queue[c_i] = ""
    /\ cpc' = LoopNext(NULL, c_i, c_queue)
    /\ c_i' = c_i + 1
    /\ UNCHANGED <<c_queue, c_count, c_log, c_db0, c_prev>>
    /\ UNCHANGED <<ledgerVars, nonCycVars>>

\* one iteration of the loop of check_resolutions
TrkLookup(r) ==
    /\ TrackerAt("check")
    /\ cpc = "loop"
    /\ c_queue[c_i] # ""
    /\ r \in Answers(c_queue[c_i])
    /\ CycLookup(r)

\* resolve_trades raises in calculate_trade_pnl (a row without outcome):
\* nothing is committed, the exception leaves check_resolutions, the
\* markets after this one are not looked up; run_resolution_tracker logs
\* "Resolution check error"
TrkResolveRaises(r) ==
    /\ TrackerAt("check")
    /\ cpc = "loop"
    /\ c_queue[c_i] # ""
    /\ r \in Answers(c_queue[c_i])
    /\ _fetch_market_resolution(r) # NULL
    /\ lock = "none"
    /\ ~Resolvable(db, c_queue[c_i])
    /\ c_log' = Append(c_log, [market |-> c_queue[c_i], response |-> r])
    /\ cpc' = "idle"
    /\ UNCHANGED <<c_queue, c_i, c_count, c_db0, c_prev>>
    /\ UNCHANGED <<ledgerVars, nonCycVars>>

\* check_resolutions has returned or raised: await
\* asyncio.sleep(interval_seconds)
TrkSleep ==
    /\ TrackerAt("check")
    /\ cpc = "idle"
    /\ TrackerMoves(NextPoint(Tracker, "check"))
    /\ UNCHANGED <<ledgerVars, cycVars, srcVars, nonTrackerVars>>

TrackerStep ==
    \/ TrkWake
    \/ TrkSkip
    \/ \E r \in SourceResponses : TrkLookup(r)
    \/ \E r \in SourceResponses : TrkResolveRaises(r)
    \/ TrkSleep

InitSource == reported = {}
\* no call of get_unresolved_trades under way
NoQueryCall == q_trades = {} /\ q_ret = NoQuery

InitRest == InitScanner /\ InitMain /\ InitSource /\ NoQueryCall

vars == <<ledgerVars, feedVars, taskVars, pnlVars, enrVars, extVars, cycVars,
          restVars>>

InitLedger ==
    /\ db = EmptyDb
    /\ pending = NoTxn
    /\ lock = "none"
    /\ pc = [p \in Procs |-> "idle"]
    /\ arg = [p \in Procs |-> NoArg]
    /\ snap = [p \in Procs |-> <<>>]
    /\ idx = [p \in Procs |-> 1]
    /\ failure = NoArg
    /\ before = [p \in Procs |-> NULL]
    /\ now = [d |-> 0, us |-> 0]

\* RTDSClient.__init__
InitFeed(thresholds) ==
    /\ whale_threshold \in thresholds
    /\ ws = "None"
    /\ _running = FALSE
    /\ _reconnect_delay = RECONNECT_DELAY_BASE
    /\ _message_count = 0
    /\ _whale_count = 0
    /\ fpc = "new"
    /\ on_whale_trade = <<>>
    /\ processed = <<>>
    /\ waits = <<>>
    /\ NoTasks
    /\ orphan_dog = FALSE
    /\ silence = 0
    /\ conn_frames = FALSE
    /\ subscribed = 0
    /\ silence0 = 0
    /\ frames = <<>>
    /\ closing = NotClosed

NoCall ==
    /\ pnl_args = NoArg
    /\ pnl_ret = NULL

\* ResolutionTracker.__init__: no cycle yet
NoCycle ==
    /\ cpc = "idle"
    /\ c_queue = <<>>
    /\ c_i = 1
    /\ c_count = 0
    /\ c_log = <<>>
    /\ c_db0 = EmptyDb
    /\ c_prev = {}

\* no _extract_resolution call
NoExtract ==
    /\ ext_market = NoArg
    /\ ext_ret = [returned |-> FALSE]

\* WalletEnricher.__init__: no call yet
InitEnrich ==
    /\ epc = "idle"
    /\ e_address = "w1"
    /\ e_start = [d |-> 0, us |-> 0]
    /\ e_wallet = NULL
    /\ e_api = <<>>
    /\ lookups = {}
    /\ e_resp = NoArg
    /\ e_ret = NULL

Init ==
    InitLedger /\ InitFeed({DefaultThreshold}) /\ NoCall /\ InitEnrich /\ NoExtract
      /\ NoCycle
      /\ InitRest

RecordStep(p, inputs, cap) ==
    \/ \E tr \in inputs : RecCounters(p, tr, cap)
    \/ RecInsert(p)
    \/ RecCommit(p)

ResolveStep(p, reports) ==
    \/ \E r \in reports : ResSelect(p, r[1], r[2])
    \/ ResUpdateTrade(p)
    \/ ResUpdateWallet(p)
    \/ ResCommit(p)

CleanupStep(p) ==
    \/ \E n \in RetentionDays : ClnCount(p, n)
    \/ ClnDelete(p)
    \/ ClnCommit(p)

UpsertStep(p) ==
    \/ \E a \in Addresses, data \in ApiData : UpsSelect(p, a, data)
    \/ UpsInsert(p)
    \/ UpsUpdate(p)
    \/ UpsCommit(p)

\* The scanner and a second reconciler on the same database file: the
\* ingestion path, the enricher and two reconcilers, in any interleaving.
Next ==
    \/ RecordStep("ingest", ConcurrentInputs, MaxTrades)
    \/ \E p \in Resolvers : ResolveStep(p, Markets \X ResolvedOutcomes)
    \/ \E p \in {"ingest"} \cup Resolvers : Fail(p)

Spec == Init /\ [][Next]_vars

\* One scanner: the ingestion path, the enricher's upsert_wallet calls and a
\* single reconciler, whatever outcome it is told.
NextWallet ==
    \/ RecordStep("ingest", WalletInputs, MaxWalletTrades)
    \/ UpsertStep("enrich")
    \/ ResolveStep("r1", Markets \X ResolvedOutcomes)
    \/ \E p \in {"ingest", "enrich", "r1"} : Fail(p)

SpecWallet == Init /\ [][NextWallet]_vars

\* One scanner (a single reconciler) and the cleanup script, over time.
NextSingle ==
    \/ RecordStep("ingest", RetentionInputs, MaxTrades)
    \/ ResolveStep("r1", SourceReports)
    \/ CleanupStep("cln")
    \/ \E p \in {"ingest", "r1", "cln"} : Fail(p)
    \/ Tick

SpecSingle == Init /\ [][NextSingle]_vars

\* Every writer of the wallets table: the ingestion path, the enricher's
\* upsert_wallet, the reconciler and the cleanup script, over time.
NextTotals ==
    \/ RecordStep("ingest", RetentionInputs, MaxTrades)
    \/ \E data \in ApiData : UpsSelect("enrich", "w1", data)
    \/ UpsInsert("enrich")
    \/ UpsUpdate("enrich")
    \/ UpsCommit("enrich")
    \/ ResolveStep("r1", SourceReports)
    \/ CleanupStep("cln")
    \/ \E p \in {"ingest", "enrich"} : Fail(p)
    \/ Tick

SpecTotals == Init /\ [][NextTotals]_vars

\* The stream client alone
NextFeed ==
    \/ Connect
    \/ ConnectOk
    \/ ConnectError
    \/ Subscribe
    \/ \E message \in Messages : Receive(message)
    \/ StreamEnd
    \/ Sleep
    \/ Wake
    \/ Return
    \/ Stop

\* The client with its three loops, the server and the network
StreamMessages == {[json |-> FALSE]}

NextStream ==
    \/ Connect
    \/ ConnectOk
    \/ ConnectError
    \/ Subscribe
    \/ \E message \in StreamMessages : Receive(message)
    \/ Elapse
    \/ PeerClose
    \/ ConnectionLost
    \/ PingFail
    \/ PingExit
    \/ RecvReturn
    \/ RecvRaise
    \/ WatchdogClose
    \/ WatchdogExit
    \/ OrphanClose
    \/ OrphanExit
    \/ GatherReturn
    \/ GatherRaise
    \/ Sleep
    \/ Wake
    \/ Return
    \/ Stop

SpecStream == Init /\ [][NextStream]_vars

\* The event loop runs every coroutine that can run, a connection attempt
\* ends, a sleep ends and time passes: the steps of connect() and of the
\* ping and receive loops are taken when they stay possible
ClientFairness ==
    /\ WF_vars(ConnectOk \/ ConnectError)
    /\ WF_vars(Subscribe)
    /\ WF_vars(Elapse)
    /\ WF_vars(PingFail)
    /\ WF_vars(PingExit)
    /\ WF_vars(RecvReturn)
    /\ WF_vars(RecvRaise)
    /\ WF_vars(WatchdogExit)
    /\ WF_vars(GatherReturn)
    /\ WF_vars(GatherRaise)
    /\ WF_vars(Sleep)
    /\ WF_vars(Wake)
    /\ WF_vars(Return)

\* ... and so is the check of the data timeout checker, every 60 seconds
SpecStreamLive ==
    Init /\ [][NextStream]_vars /\ ClientFairness /\ WF_vars(WatchdogClose)

\* The same client where nothing is assumed of the data timeout checker
SpecStreamPing == Init /\ [][NextStream]_vars /\ ClientFairness

\* a client made with either threshold
InitStream ==
    InitLedger /\ InitFeed(Thresholds) /\ NoCall /\ InitEnrich /\ NoExtract
      /\ NoCycle
      /\ InitRest

SpecFeed == InitStream /\ [][NextFeed]_vars

\* The receive loop on good and bad messages: text that is not JSON, a
\* trades message whose first trade has a size that is no number, one whose
\* second trade has, and a trades message of one whale trade
WhaleTrade == [size |-> Number(2000000), price |-> Number(50)]
BadTrade == [size |-> String(<<97, 98, 99>>), price |-> Number(50)]
FrameMessages ==
    {[json |-> FALSE]}
    \cup {[json |-> TRUE, topic |-> "activity", type |-> "trades",
           payload |-> ts] :
             ts \in {<<BadTrade, WhaleTrade>>, <<WhaleTrade, BadTrade>>,
                     <<WhaleTrade>>}}

NextFrames ==
    \/ Connect
    \/ ConnectOk
    \/ Subscribe
    \/ \E message \in FrameMessages : Receive(message)
    \/ ConnectionLost
    \/ RecvRaise
    \/ GatherRaise
    \/ Sleep
    \/ Wake

SpecFrames == Init /\ [][NextFrames]_vars


\* The scanner's callback on the whale trades of the feed, with the
\* enricher, the ledger and the alert sink (within the 24 hours of the
\* cache)
NextScanner ==
    \/ \E trade \in WhaleEvents : HwtStart(trade)
    \/ HwtEnrich
    \/ \E tr \in ScannerTrades, lb \in ScannerLeaderboard : EnrFetch(tr, lb)
    \/ EnrUpsert
    \/ EnrUpsertRaises
    \/ HwtEnriched
    \/ HwtRecord
    \/ RecInsert("ingest")
    \/ RecCommit("ingest")
    \/ Fail("ingest")
    \/ HwtRecorded
    \/ HwtReread
    \/ \E result \in AlertResults : HwtAlert(result)

SpecScanner == Init /\ [][NextScanner]_vars

\* The scanner's three tasks under start()
NextMain ==
    \/ \E t \in TaskNames : LoopGoesOn(t)
    \/ \E t \in TaskNames : LoopRaises(t)
    \/ HandleSignal
    \/ \E t \in TaskNames : TaskCancelled(t)
    \/ Cleanup
    \/ CloseNext
    \/ RunEnds

SpecMain == Init /\ [][NextMain]_vars

\* Two upsert_wallet calls, statement by statement, in any interleaving
NextUpsert ==
    \/ \E p \in Upserters : UpsertStep(p)
    \/ \E p \in Upserters : UpsInsertConflict(p)

SpecUpsert == Init /\ [][NextUpsert]_vars

\* The scanner's enrichment path over time: ingestion creates wallets,
\* enrich is called for any address, the clock advances.
EnrichStep ==
    \/ \E a \in EnrichAddresses : EnrGetWallet(a)
    \/ \E tr \in TradesResponses, lb \in LeaderboardResponses : EnrFetch(tr, lb)
    \/ EnrUpsert
    \/ EnrUpsertRaises

NextEnrich ==
    \/ EnrichStep
    \/ RecordStep("ingest", ConcurrentInputs, MaxEnrichTrades)
    \/ Tick

SpecEnrich == Init /\ [][NextEnrich]_vars

\* run_resolution_tracker beside the ingestion path, the source resolving
\* the markets one by one, until a signal
TrackerInputs == {BuyYes, BuyNo, NoOutcome, NoMarketId}
NextTracker ==
    \/ TrackerStep
    \/ \E m \in Markets : SourceResolves(m)
    \/ RecordStep("ingest", TrackerInputs, MaxTrades)
    \/ HandleSignal

\* The event loop runs the task: each sleep ends, each lookup returns or
\* raises (the session's total timeout is 30 s), and a transaction of the
\* ingestion path that has begun commits
TrackerFairness ==
    /\ WF_vars(TrackerStep)
    /\ WF_vars(RecordStep("ingest", TrackerInputs, MaxTrades))

SpecTracker == Init /\ [][NextTracker]_vars /\ TrackerFairness

\* The reconciler's cycles beside the ingestion path
NextCycle ==
    \/ CycStart
    \/ \E r \in SourceResponses : CycLookup(r)
    \/ RecordStep("ingest", ConcurrentInputs, MaxTrades)

SpecCycle == Init /\ [][NextCycle]_vars

\* check_resolutions against a source whose markets are still open (closed
\* missing or false, resolved missing or false) though their outcome fields
\* are filled, beside one closed market
OpenMarkets ==
    { [NoMarket EXCEPT !.outcome = Some("Yes")],
      [NoMarket EXCEPT !.closed = Some(FALSE),
                       !.outcomes = Some(<<"Yes", "No">>),
                       !.outcomePrices = Some(<<Number(100), Number(0)>>)],
      [NoMarket EXCEPT !.closed = Some(FALSE), !.resolved = Some(FALSE),
                       !.resolvedOutcome = Some("No")],
      [NoMarket EXCEPT !.outcome = Some("Yes"),
                       !.outcomes = Some(<<"Yes", "No">>),
                       !.outcomePrices = Some(<<Number(0), Number(100)>>),
                       !.resolvedOutcome = Some("No")] }
OpenMarketResponses ==
    {Http(200, <<m>>) : m \in OpenMarkets}
        \cup {Http(200, <<[NoMarket EXCEPT !.closed = Some(TRUE),
                                           !.outcome = Some("Yes")]>>)}

NextOpenMarket ==
    \/ CycStart
    \/ \E r \in OpenMarketResponses : CycLookup(r)
    \/ RecordStep("ingest", ConcurrentInputs, MaxTrades)

SpecOpenMarket == Init /\ [][NextOpenMarket]_vars

\* The reconciliation loop and the cleanup script over time, the ingestion
\* path recording trades with and without a market identifier
NoMarketInputs == {NoMarketId, BuyYes}
NextNoMarket ==
    \/ TrkWake
    \/ TrkSkip
    \/ \E r \in SourceResponses : TrkLookup(r)
    \/ TrkSleep
    \/ SourceResolves("m1")
    \/ RecordStep("ingest", NoMarketInputs, MaxTrades)
    \/ CleanupStep("cln")
    \/ Tick

SpecNoMarket == Init /\ [][NextNoMarket]_vars

\* _extract_resolution on each market object of MarketObjects
InitExtract ==
    /\ InitLedger
    /\ InitFeed({DefaultThreshold})
    /\ NoCall
    /\ InitEnrich
    /\ ext_market \in MarketObjects
    /\ ext_ret = [returned |-> FALSE]
    /\ NoCycle
    /\ InitRest

NextExtract == ExtractResolution

SpecExtract == InitExtract /\ [][NextExtract]_vars

\* get_unresolved_trades on each table made of rows of QueryRows
InitQuery ==
    /\ InitLedger
    /\ InitFeed({DefaultThreshold})
    /\ NoCall
    /\ InitEnrich
    /\ NoExtract
    /\ NoCycle
    /\ InitScanner /\ InitMain /\ InitSource
    /\ q_trades \in SUBSET QueryRows
    /\ q_ret = NoQuery

NextQuery == GetUnresolvedTrades

SpecQuery == InitQuery /\ [][NextQuery]_vars

\* calculate_trade_pnl on each input of PnlInputs
InitPnl ==
    /\ InitLedger
    /\ InitFeed({DefaultThreshold})
    /\ pnl_args \in PnlInputs
    /\ pnl_ret = NULL
    /\ InitEnrich
    /\ NoExtract
    /\ NoCycle
    /\ InitRest

NextPnl == CalculateTradePnl

SpecPnl == InitPnl /\ [][NextPnl]_vars

\* =============================================================== claims
Settled(t) == t.trade_won # NULL
TradesOf(d, a) == {t \in d.trades : t.wallet_address = a}
SettledOf(d, a) == {t \in TradesOf(d, a) : Settled(t)}

RECURSIVE SumValue(_)
SumValue(rows) ==
    IF rows = {} THEN 0
    ELSE LET t == CHOOSE x \in rows : TRUE
         IN  t.trade_value + SumValue(rows \ {t})

\* C1: resolve_trades is idempotent.  From every reachable ledger, for every
\* market and outcome whose first call commits, a second call made right
\* after it returns 0 and commits the ledger the first call left: the same
\* trade rows and the same wins, losses and realized_pnl of every wallet.
C1_ResolveIdempotent ==
    \A m \in Markets, o \in ResolvedOutcomes :
        Resolvable(db, m) =>
            LET first == resolve_trades(db, m, o)
                second == resolve_trades(first.db, m, o)
            IN  second.n = 0 /\ second.db = first.db

\* A reconciler has run its SELECT for a market whose trades an earlier call
\* settled with the same outcome, and has found nothing to do.
C1_Witness ==
    \E p \in Resolvers :
        /\ pc[p] = "res_loop"
        /\ snap[p] = <<>>
        /\ \E t \in db.trades :
              /\ t.condition_id = arg[p].condition_id
              /\ t.resolved_outcome = Some(arg[p].resolved_outcome)

\* C2: settlement is never double-applied under interleaving.  Each trade's
\* result has been added to its wallet's wins/losses/realized_pnl exactly
\* once if the trade is settled, and never otherwise.
C2_CreditedExactlyOnce ==
    \A i \in DOMAIN db.credits :
        db.credits[i] = IF HasTrade(db, i) /\ Settled(Trade(db, i)) THEN 1 ELSE 0

\* C3: a settled trade is immutable.  No step of record_whale_trade,
\* upsert_wallet or a later resolve_trades (same or different outcome)
\* changes resolved_outcome, trade_won or pnl of a trade whose trade_won is
\* not NULL.
C3_SettledImmutable ==
    [][\A t \in db.trades : Settled(t) =>
          \E u \in db'.trades :
              /\ u.id = t.id
              /\ u.resolved_outcome = t.resolved_outcome
              /\ u.trade_won = t.trade_won
              /\ u.pnl = t.pnl]_vars

\* A resolve_trades call for a market that has a trade settled with the
\* other outcome has gone through its loop and is about to commit.
C3_Witness ==
    /\ pc["r1"] = "res_loop"
    /\ idx["r1"] > Len(snap["r1"])
    /\ \E t \in db.trades :
          /\ t.condition_id = arg["r1"].condition_id
          /\ Settled(t)
          /\ t.resolved_outcome # Some(arg["r1"].resolved_outcome)
    /\ \E a \in Addresses : HasWallet(db, a) /\ Wallet(db, a).last_api_fetch # NULL

\* C4, as claimed: each wallet's wins + losses is at most the number of its
\* settled trades in the ledger, and its realized_pnl is the sum of their
\* pnl.
C4_AggregatesMatchLedger ==
    \A a \in Addresses : HasWallet(db, a) =>
        /\ Wallet(db, a).wins + Wallet(db, a).losses
              <= Cardinality(SettledOf(db, a))
        /\ Wallet(db, a).realized_pnl = SumPnl(SettledOf(db, a))

\* C4, amended: the same with the settled trades that cleanup has removed
\* counted in: wins + losses is at most the number of the wallet's settled
\* trades in the ledger plus those cleanup deleted, and realized_pnl is the
\* sum of pnl over both.
C4_AggregatesMatchHistory ==
    \A a \in Addresses : HasWallet(db, a) =>
        /\ Wallet(db, a).wins + Wallet(db, a).losses
              <= Cardinality(SettledOf(db, a)) + db.deleted[a].n
        /\ Wallet(db, a).realized_pnl
              = SumPnl(SettledOf(db, a)) + db.deleted[a].pnl

\* Cleanup has removed a settled trade of a wallet, whose aggregates still
\* count it.
C4_Witness ==
    \E a \in Addresses :
        /\ HasWallet(db, a)
        /\ db.deleted[a].n > 0
        /\ db.deleted[a].pnl # 0
        /\ Wallet(db, a).wins + Wallet(db, a).losses
              > Cardinality(SettledOf(db, a))

\* C5: record_whale_trade is atomic.  When the call has just been left
\* without commit after its counter update, the ledger is the one from
\* before the call wrote: neither the counters nor the trade row are there.
C5_RecordAtomic ==
    (failure.kind = "record" /\ failure.wrote) =>
        /\ db = Val(failure.before)
        /\ \A a \in Addresses : HasWallet(db, a) =>
              /\ Wallet(db, a).total_whale_trades = Cardinality(TradesOf(db, a))
              /\ Wallet(db, a).total_whale_volume = SumValue(TradesOf(db, a))

\* A record_whale_trade call has failed after its counter update.
C5_Witness == failure.kind = "record" /\ failure.wrote

\* C6: resolve_trades is all-or-nothing.  When the call has just failed
\* after writing trade rows and wallet aggregates, the ledger is the one
\* from before the call wrote: no trade is settled by it and no wallet's
\* wins, losses or realized_pnl has changed.
C6_ResolveAllOrNothing ==
    (failure.kind = "resolve" /\ failure.wrote) =>
        db = Val(failure.before)

\* A resolve_trades call has failed after it wrote the trade row and the
\* wallet aggregates of at least one trade.
C6_Witness ==
    failure.kind = "resolve" /\ failure.wrote /\ failure.rows >= 1

\* C7: cleanup never deletes a trade whose settlement fields are NULL, and
\* the cleanup that commits deletes exactly the settled trades whose time is
\* strictly before the cutoff: settled trades at or after it stay.
C7_CleanupRetention ==
    [][/\ \A t \in db.trades : ~Settled(t) => \E u \in db'.trades : u.id = t.id
       /\ (pc["cln"] = "cln_commit" /\ pc'["cln"] = "idle" /\ failure' = NoArg) =>
             \A t \in db.trades :
                 t \in db'.trades <=>
                     ~(Settled(t) /\ TimeLess(FromIsoFormat(t.timestamp),
                                              FromIsoFormat(arg["cln"].cutoff)))
      ]_vars

\* Cleanup has run its DELETE: it removes a settled trade and keeps an
\* unsettled one that is older than the cutoff.
C7_Witness ==
    /\ pc["cln"] = "cln_commit"
    /\ pending.db.trades # db.trades
    /\ \E t \in pending.db.trades :
          ~Settled(t) /\ TimeLess(FromIsoFormat(t.timestamp),
                                  FromIsoFormat(arg["cln"].cutoff))

\* What the claim gives for a call: won, and the exact pnl in thousandths of
\* a dollar.
C8_Won(a) ==
    ((a.side = "BUY" /\ a.bet_outcome = "YES")
        \/ (a.side = "SELL" /\ a.bet_outcome = "NO"))
    <=> (a.resolved_outcome = "YES")

C8_Exact(a) ==
    CASE C8_Won(a) /\ a.side = "BUY" -> a.size * (100 - a.price)
      [] C8_Won(a) /\ a.side = "SELL" -> a.size * a.price
      [] ~C8_Won(a) /\ a.side = "BUY" -> 0 - a.size * a.price
      [] ~C8_Won(a) /\ a.side = "SELL" -> 0 - a.size * (100 - a.price)

C8_Formula ==
    pnl_ret # NULL =>
        /\ Val(pnl_ret).won = C8_Won(pnl_args)
        /\ 10 * Val(pnl_ret).pnl - C8_Exact(pnl_args) \in -5..5

C8_Returns(bet_outcome, side, size, price, resolved_outcome, won, pnl) ==
    (/\ pnl_ret # NULL
     /\ pnl_args = [bet_outcome |-> bet_outcome, side |-> side, size |-> size,
                    price |-> price, resolved_outcome |-> resolved_outcome])
    => pnl_ret = Some([won |-> won, pnl |-> pnl])

\* C8, as claimed: for every side, bet, resolution, size and price of the
\* bounded sets, calculate_trade_pnl returns won = ((BUY and YES) or (SELL
\* and NO)) == (resolved YES), and pnl = size*(1-price) for a winning BUY,
\* size*price for a winning SELL, -size*price for a losing BUY,
\* -size*(1-price) for a losing SELL, rounded to a cent; BUY YES 10 @ 0.6
\* gives (won, 4.00) resolved YES and (lost, -6.00) resolved NO, and SELL NO
\* 5 @ 0.3 resolved NO gives (won, 1.50).
C8_PnlFormulaAsClaimed ==
    /\ C8_Formula
    /\ C8_Returns("YES", "BUY", 100, 60, "YES", TRUE, 400)
    /\ C8_Returns("YES", "BUY", 100, 60, "NO", FALSE, -600)
    /\ C8_Returns("NO", "SELL", 50, 30, "NO", TRUE, 150)

\* C8, amended: the same formula (pnl at most half a cent from the exact
\* value), with the third example as the formula gives it: SELL NO 5 @ 0.3
\* gives (lost, -3.50) resolved NO and (won, 1.50) resolved YES.
C8_PnlFormula ==
    /\ C8_Formula
    /\ C8_Returns("YES", "BUY", 100, 60, "YES", TRUE, 400)
    /\ C8_Returns("YES", "BUY", 100, 60, "NO", FALSE, -600)
    /\ C8_Returns("NO", "SELL", 50, 30, "NO", FALSE, -350)
    /\ C8_Returns("NO", "SELL", 50, 30, "YES", TRUE, 150)

\* The call for SELL NO 5 @ 0.30 resolved NO has returned (lost, -3.50).
C8_Witness ==
    /\ pnl_args = [bet_outcome |-> "NO", side |-> "SELL", size |-> 50,
                   price |-> 30, resolved_outcome |-> "NO"]
    /\ pnl_ret = Some([won |-> FALSE, pnl |-> -350])

\* C9: the whale threshold is inclusive.  The trades handed to the
\* on_whale_trade callback are exactly the processed trades whose size x
\* price is at least the threshold, in order: a trade whose value equals the
\* threshold is emitted and one whose value is one cent below is not.
C9_ThresholdInclusive ==
    LET AtLeast(t) == trade_value(t) >= whale_threshold
    IN  /\ on_whale_trade = SelectSeq(processed, AtLeast)
        /\ _whale_count = Len(on_whale_trade)
        /\ \A i \in DOMAIN processed :
              /\ trade_value(processed[i]) = whale_threshold
                    => \E j \in DOMAIN on_whale_trade :
                          on_whale_trade[j] = processed[i]
              /\ trade_value(processed[i]) = whale_threshold - 100
                    => \A j \in DOMAIN on_whale_trade :
                          on_whale_trade[j] # processed[i]

\* The client has processed a trade worth one cent less than the threshold
\* and a trade worth exactly the threshold, and has emitted only the second.
C9_Witness ==
    /\ Len(processed) = 2
    /\ trade_value(processed[1]) = whale_threshold - 100
    /\ trade_value(processed[2]) = whale_threshold
    /\ on_whale_trade = <<processed[2]>>

\* C10: the waits before reconnection attempts since the client was made or
\* last connected are 5, 10, 20, 40, 60, 60, ... seconds, and while the
\* client is connected the wait that will follow is 5 seconds.
C10_Backoff ==
    /\ \A k \in DOMAIN waits :
          waits[k] = IF k <= 4 THEN 5 * 2^(k - 1) ELSE 60
    /\ fpc \in {"subscribing", "streaming"} => _reconnect_delay = 5 /\ waits = <<>>

\* After a connection that delivered a message, six connection attempts in a
\* row have failed: the client sleeps for the sixth time.
C10_Witness ==
    /\ fpc = "sleeping"
    /\ _message_count > 0
    /\ waits = <<5, 10, 20, 40, 60, 60>>

\* ---------------------------------------------------------------- C11
\* The wallet row enrich read had been fetched from the API, and less than
\* CACHE_TTL_HOURS before the call
FetchedWithinTtl ==
    /\ e_wallet # NULL
    /\ Val(e_wallet).last_api_fetch # NULL
    /\ ElapsedLess(e_start, FromIsoFormat(Val(Val(e_wallet).last_api_fetch)),
                   CACHE_TTL_HOURS)

\* The call returned the row it read, every column as stored
ReturnedStored ==
    /\ DOMAIN Val(e_ret) = DOMAIN Val(e_wallet)
    /\ \A k \in DOMAIN Val(e_wallet) \ {"api_data_fresh"} :
           Val(e_ret)[k] = Val(e_wallet)[k]

\* C11: an enrich call for a wallet whose API data was fetched less than 24
\* hours before the call issues no network lookup and returns the stored row;
\* a call for a wallet fetched 24 hours ago or more (or never) issues both
\* lookups.
C11_EnrichmentCache ==
    e_ret # NULL =>
        IF FetchedWithinTtl
        THEN lookups = {} /\ ReturnedStored
        ELSE lookups = AllLookups

\* a call made one microsecond short of 24 hours after the fetch was served
\* from the stored row
C11_Witness ==
    /\ e_ret # NULL
    /\ FetchedWithinTtl
    /\ lookups = {}
    /\ e_start.d = FromIsoFormat(Val(Val(e_wallet).last_api_fetch)).d + 1

\* ---------------------------------------------------------------- C12
\* The call fetched, and its /trades lookup did not end with a 200
TradesLookupFailed ==
    /\ e_ret # NULL
    /\ lookups = AllLookups
    /\ ~(e_resp.trades.outcome = "response" /\ e_resp.trades.status = 200)

\* C12: when the trade-history lookup of an enrich call fails (a status
\* other than 200, a timeout, an exception), the trade_count of the returned
\* dict is None and the wallet's persisted api_trade_count is NULL.
C12_FailedCountIsNull ==
    TradesLookupFailed =>
        /\ "trade_count" \in DOMAIN Val(e_ret)
        /\ Val(e_ret)["trade_count"] = NULL
        /\ HasWallet(db, e_address)
        /\ Wallet(db, e_address).api_trade_count = NULL

\* a refresh of a wallet that had a persisted count, with /trades rate
\* limited
C12_Witness ==
    /\ TradesLookupFailed
    /\ e_resp.trades.status = 429
    /\ e_wallet # NULL
    /\ Val(e_wallet).api_trade_count = Some(2)
    /\ Wallet(db, e_address).api_trade_count = NULL

\* ---------------------------------------------------------------- C13
\* The call refreshed a wallet with persisted leaderboard values, and its
\* leaderboard lookup was rate limited
LeaderboardRateLimited ==
    /\ e_ret # NULL
    /\ lookups = AllLookups
    /\ e_resp.leaderboard.outcome = "response"
    /\ e_resp.leaderboard.status = 429
    /\ e_wallet # NULL
    /\ Val(e_wallet).leaderboard_pnl # NULL

\* C13: after a refresh whose leaderboard lookup was rate limited, the
\* wallet's persisted leaderboard_rank, leaderboard_pnl and
\* leaderboard_volume are the values it had before the refresh.
C13_LeaderboardKept ==
    LeaderboardRateLimited =>
        /\ Wallet(db, e_address).leaderboard_rank = Val(e_wallet).leaderboard_rank
        /\ Wallet(db, e_address).leaderboard_pnl = Val(e_wallet).leaderboard_pnl
        /\ Wallet(db, e_address).leaderboard_volume = Val(e_wallet).leaderboard_volume

\* ---------------------------------------------------------------- C14
\* C14: upsert_wallet calls that interleave between the existence check and
\* the insert all complete without error, and the address has exactly one
\* wallet row: no call is ended by the insert's IntegrityError and no
\* address has two rows.
C14_UpsertRaceSafe ==
    /\ failure.kind # "IntegrityError"
    /\ \A a \in Addresses : Cardinality({w \in db.wallets : w.address = a}) <= 1

\* ---------------------------------------------------------------- C15
\* The indices of outcomePrices whose price is a number >= 0.99 and that
\* outcomes has too; empty unless both lists are non-empty
CertainIndices ==
    LET prices == GetList(ext_market.outcomePrices)
        outcomes == GetList(ext_market.outcomes)
    IN  {i \in 1..Len(prices) :
            /\ i <= Len(outcomes)
            /\ ParsePrice(prices[i]) # NULL
            /\ Val(ParsePrice(prices[i])) >= CertainPrice}

Closed == TrueFlag(ext_market.closed) \/ TrueFlag(ext_market.resolved)

\* C15 as stated: every market with a non-empty explicit outcome field yields
\* that outcome.
C15_ExplicitOutcomeAlways ==
    (ext_ret.returned /\ NonEmptyText(ext_market.outcome))
        => ext_ret.value = ext_market.outcome

\* C15: for a market whose closed or resolved flag is set, extraction
\* returns the non-empty explicit outcome; else the outcome at the first
\* index whose price is a number >= 0.99 (and that the outcomes list has);
\* else the non-empty resolvedOutcome; else "not resolved".  A market with
\* neither flag set is "not resolved" whatever its other fields.
C15_FallbackChain ==
    ext_ret.returned =>
        ext_ret.value =
            IF ~Closed THEN NULL
            ELSE IF NonEmptyText(ext_market.outcome) THEN ext_market.outcome
            ELSE IF CertainIndices # {}
                 THEN Some(Val(ext_market.outcomes)[
                          CHOOSE i \in CertainIndices :
                              \A j \in CertainIndices : i <= j])
            ELSE IF NonEmptyText(ext_market.resolvedOutcome)
                 THEN ext_market.resolvedOutcome
            ELSE NULL

\* a closed market without explicit outcome, with two prices >= 0.99 and a
\* resolvedOutcome: the outcome of the first such price is returned
C15_Witness ==
    /\ ext_ret.returned
    /\ Closed
    /\ ~NonEmptyText(ext_market.outcome)
    /\ CertainIndices = {1, 2}
    /\ ext_market.resolvedOutcome = Some("No")
    /\ ext_ret.value = Some("Yes")

SettledAs(market, r) ==
    \A t \in UnresolvedTrades(c_db0, market) :
        /\ HasTrade(db, t.id)
        /\ Trade(db, t.id).trade_won # NULL
        /\ Trade(db, t.id).resolved_outcome = _extract_resolution(r.data[1])

Stopped == ~_running
Disconnected == fpc \in {"closed", "sleeping"}

SilentTooLong == silence * CHECK_INTERVAL > DATA_TIMEOUT
SilentStreaming == fpc = "streaming" /\ ws = "open" /\ SilentTooLong
HeardInWindow == silence \in {n \in 0..MaxSilence : n * CHECK_INTERVAL <= DATA_TIMEOUT}

\* A connection the checker closed had been silent for more than 300
\* seconds when it did
ClosedOnlyAfterWindow ==
    closing.by = "watchdog" => closing.after * CHECK_INTERVAL > DATA_TIMEOUT

\* C19: the data timeout checker closes a connection only when more than
\* 300 seconds have passed since the last message; while Streaming with more
\* than 300 seconds since the last message the connection gets closed (or a
\* message arrives, or stop is requested); and once the checker has closed it
\* the state machine goes to Disconnected, sleeps the backoff and re-enters
\* Connecting (or stop is requested).
C19_DataTimeout ==
    /\ []ClosedOnlyAfterWindow
    /\ SilentStreaming ~> (ws = "closed" \/ HeardInWindow \/ Stopped)
    /\ (fpc = "streaming" /\ closing.by = "watchdog")
          ~> (fpc = "sleeping" \/ Stopped)
    /\ (fpc = "sleeping" /\ closing.by = "watchdog")
          ~> (fpc = "connecting" \/ Stopped)

\* the client is connecting again after the checker closed a connection on
\* which a message had been received
C19_Witness ==
    /\ fpc = "connecting"
    /\ _running
    /\ closing.by = "watchdog"
    /\ closing.frames
    /\ waits = <<RECONNECT_DELAY_BASE>>

\* ---------------------------------------------------------------- C20
\* The connection attempt failed or the connection is over: an error of
\* connect or of the subscription, a close by the server, a lost connection,
\* a close by the data timeout checker
ConnectionOver ==
    \/ fpc = "closed"
    \/ fpc = "streaming" /\ ws = "closed"

\* C20: whenever the connection attempt has failed or the connection is
\* over, the client reaches the backoff sleep, and from the sleep it
\* re-enters Connecting, unless stop is requested.  (Len(waits) < MaxWaits:
\* within the sleeps counted.)
C20_NoTerminalState ==
    /\ (ConnectionOver /\ Len(waits) < MaxWaits) ~> (fpc = "sleeping" \/ Stopped)
    /\ (fpc = "sleeping") ~> (fpc = "connecting" \/ Stopped)

\* the client is connecting again after the server closed a connection with
\* a closing handshake
C20_Witness ==
    /\ fpc = "connecting"
    /\ _running
    /\ closing.by = "peer"
    /\ waits = <<RECONNECT_DELAY_BASE>>

\* ---------------------------------------------------------------- C21
\* stop() has been called on a client whose connect() is under way
StopRequested == ~_running /\ fpc # "new"
AllExited == NoTasks /\ ~orphan_dog

\* C21: after stop() has been called (while Connecting, Streaming or in the
\* backoff) no connection is opened any more, and eventually connect() has
\* returned, the ping loop, the receive loop and every data timeout checker
\* have exited, and no connection is open.
C21_StopComplete ==
    /\ [][StopRequested => ~(ws # "open" /\ ws' = "open")]_vars
    /\ StopRequested ~> (fpc = "returned" /\ AllExited /\ ws # "open")

\* ---------------------------------------------------------------- C22
\* the trades _process_trade was called with in the step
NewlyProcessed == SubSeq(processed', Len(processed) + 1, Len(processed'))
NewlyEmitted == SubSeq(on_whale_trade', Len(on_whale_trade) + 1, Len(on_whale_trade'))
LastFrame == frames'[Len(frames')]

\* C22: every received message, also one that is not JSON and one whose
\* handling raises, leaves the receive loop running and the connection open;
\* nothing is emitted from a message that is not JSON, and from a message
\* whose handling raised nothing from the raising trade on; and of every
\* message handled without an exception, whatever came before it on the
\* connection, each whale trade is emitted.
C22_MalformedNotFatal ==
    [][Len(frames') > Len(frames) =>
          /\ ws' = "open" /\ t_recv' = "running" /\ fpc' = "streaming"
          /\ LastFrame = "undecodable" => NewlyEmitted = <<>>
          /\ LastFrame = "raised" =>
               NewlyEmitted =
                 Whales(SubSeq(NewlyProcessed, 1, Len(NewlyProcessed) - 1),
                        whale_threshold)
          /\ LastFrame = "handled" =>
               NewlyEmitted = Whales(NewlyProcessed, whale_threshold)]_vars

\* a message whose first trade raised, then a whale trade emitted on the
\* same connection
C22_Witness ==
    /\ frames = <<"raised", "handled">>
    /\ processed = <<BadTrade, WhaleTrade>>
    /\ on_whale_trade = <<WhaleTrade>>
    /\ ws = "open"
    /\ t_recv = "running"

\* ---------------------------------------------------------------- C23
\* the events handled so far, the one being handled included
EndedEvents == {h_events[i] : i \in 1..Len(h_events)}
Handled == EndedEvents \cup (IF hpc = "idle" THEN {} ELSE {h_ev})
CallOrder == <<"enrich", "record", "get_wallet", "alert">>
\* the trade row of the event is committed
RowCommitted(ev) ==
    /\ ev.row > 0
    /\ HasTrade(db, ev.row)
    /\ Trade(db, ev.row).wallet_address = Val(ev.trade.proxyWallet)
    /\ Trade(db, ev.row).condition_id = ev.trade.conditionId

\* C23: for every whale trade, the calls are made in the order enrich,
\* record_whale_trade, get_wallet, send_alert; once get_wallet is called and
\* whenever the alert is sent, the trade's row is committed, and the stats of
\* the alert have total_whale_trades >= 1; an event whose record_whale_trade
\* raised has no alert.
C23_AlertAfterCommit ==
    \A ev \in Handled :
        /\ ev.steps = SubSeq(CallOrder, 1, Len(ev.steps))
        /\ Len(ev.steps) >= 3 => RowCommitted(ev)
        /\ ev.alert # "none" =>
              /\ RowCommitted(ev)
              /\ Val(ev.stats).total_whale_trades >= 1
        /\ ev.fault = "record" => ev.alert = "none"

\* a trade whose record_whale_trade raised, then a trade alerted with one
\* whale trade counted
C23_Witness ==
    /\ Len(h_events) = 2
    /\ h_events[1].fault = "record"
    /\ h_events[1].alert = "none"
    /\ h_events[2].alert = "204"
    /\ h_events[2].steps = CallOrder
    /\ Val(h_events[2].stats).total_whale_trades = 1

\* ---------------------------------------------------------------- C24
AlertFailed(ev) == ev.alert \in {"status", "exception", "raised"}
\* the wallet's counter is the number of its trade rows
CounterCommitted(address) ==
    /\ HasWallet(db, address)
    /\ Wallet(db, address).total_whale_trades = Cardinality(TradesOf(db, address))

\* C24: the step in which the alert fails (the webhook answers another
\* status than 204, the post raises, or building the alert raises) leaves the
\* database as it is and the handler ready for the next event; the trade row
\* and the wallet counter of every event whose alert failed are committed.
C24_AlertFailureHarmless ==
    /\ [](\A ev \in EndedEvents :
             AlertFailed(ev) =>
                 RowCommitted(ev) /\ CounterCommitted(Val(ev.trade.proxyWallet)))
    /\ [][(Len(h_events') > Len(h_events)
            /\ AlertFailed(h_events'[Len(h_events')]))
              => (db' = db /\ hpc' = "idle")]_vars

\* an alert that failed, then a trade recorded and alerted
C24_Witness ==
    /\ Len(h_events) = 2
    /\ h_events[1].alert = "exception"
    /\ h_events[2].alert = "204"
    /\ RowCommitted(h_events[1])
    /\ RowCommitted(h_events[2])
    /\ h_events[2].row = 2

\* ---------------------------------------------------------------- C25
BothLookupsFailed(ev) ==
    /\ ev.lookups.kind = "fetched"
    /\ ev.lookups.trades \in Failures
    /\ ev.lookups.leaderboard \in Failures

\* C25: every handled whale trade for whose wallet both lookups failed (a
\* status other than 200, a timeout or an exception), and for which no call
\* on the storage raised, has its trade row committed and its wallet counter
\* incremented.
C25_LookupFailuresDoNotBlock ==
    \A ev \in EndedEvents :
        (BothLookupsFailed(ev) /\ ev.fault = "none") =>
            /\ RowCommitted(ev)
            /\ CounterCommitted(Val(ev.trade.proxyWallet))
            /\ Wallet(db, Val(ev.trade.proxyWallet)).total_whale_trades >= 1

\* a trade recorded after a 500 of the trades lookup and a 429 of the
\* leaderboard lookup
C25_Witness ==
    /\ Len(h_events) = 1
    /\ h_events[1].lookups =
          [kind |-> "fetched", trades |-> Http(500, <<>>),
           leaderboard |-> Http(429, <<>>)]
    /\ RowCommitted(h_events[1])
    /\ Wallet(db, "w1").total_whale_trades = 1

\* ---------------------------------------------------------------- C27
\* the wallet's trade count as the enricher has it: the count of the lookup
\* just made, or the cached api_trade_count
KnownCount(ev) ==
    LET wallet_stats == Val(ev.enriched)
    IN  IF "trade_count" \in DOMAIN wallet_stats
        THEN wallet_stats["trade_count"]
        ELSE wallet_stats["api_trade_count"]

\* C27: every alert handed to the webhook carries the NEW WALLET flag if and
\* only if the wallet's trade count is known and less than 10.
C27_NewWalletFlag ==
    \A ev \in EndedEvents :
        ev.alert \in {"204", "status", "exception"} =>
            (ev.flagged <=> (KnownCount(ev) # NULL /\ Val(KnownCount(ev)) < 10))

\* ---------------------------------------------------------------- C29
\* C29: every handled whale trade that carries a wallet identifier, and for
\* which no call on the storage raised, has one committed trade row of its
\* own, whose trade_value is size x price as the feed computed it (numbers or
\* numeric strings); and every trade row belongs to an event.
C29_EveryWhaleRecorded ==
    /\ \A ev \in EndedEvents :
          (ev.trade.proxyWallet # NULL /\ ev.fault = "none") =>
              /\ RowCommitted(ev)
              /\ Trade(db, ev.row).trade_value * 10 = trade_value(ev.trade)
    /\ \A i, j \in 1..Len(h_events) :
          (i # j /\ h_events[i].row > 0) => h_events[i].row # h_events[j].row
    /\ \A t \in db.trades :
          \/ \E ev \in Handled : ev.row = t.id
          \/ hpc = "recording" /\ t.id = h_ev.seq0 + 1

\* ---------------------------------------------------------------- C26
RaisedTasks == {t \in TaskNames : _tasks[t] = "raised"}

\* C26: while exactly one of the three tasks has ended with an exception
\* and no shutdown signal has arrived, the two others are running (neither
\* returned nor cancelled), no stop() was called, the shutdown flag is not
\* set and the HTTP sessions are open.
C26_LoopsIndependent ==
    (Cardinality(RaisedTasks) = 1 /\ ~signalled) =>
        /\ \A t \in TaskNames \ RaisedTasks : _tasks[t] = "running"
        /\ ~_shutdown
        /\ stop_calls = {}
        /\ open_sessions = Sessions

\* ---------------------------------------------------------------- C28
\* The data timeout checkers that are running: the one of the current
\* gather and the one left over from the gather of an earlier connection
Checkers ==
    (IF t_dog = "running" THEN {"current"} ELSE {})
        \cup (IF orphan_dog THEN {"earlier"} ELSE {})

\* C28: while a connection is Streaming no loop started for an earlier
\* connection is still running, so at most one data timeout checker is
\* active, and the one that is belongs to the connection that is open.
C28_SameEpoch ==
    fpc = "streaming" => Checkers \subseteq {"current"}

\* ---------------------------------------------------------------- C30
\* the outcome the source reports for a market
Reported(m) == (CHOOSE rep \in SourceReports : rep[1] = m)[2]
TrackerStopped == _shutdown \/ _tasks[Tracker] # "running"
\* the market has left the work queue, each of its trades settled with the
\* outcome the source reports
Reconciled(m) ==
    /\ m \notin UnresolvedMarkets(db)
    /\ \A t \in db.trades :
           t.condition_id = m => t.resolved_outcome = Some(Reported(m))

\* C30: from the moment the source reports a market resolved and answers
\* every lookup of it with the outcome, and unless the reconciler is
\* stopped, the market eventually is out of the work queue with every trade
\* recorded for it settled with that outcome.
C30_ReconciliationLive ==
    \A m \in Markets :
        (m \in reported) ~> (Reconciled(m) \/ TrackerStopped)

\* ---------------------------------------------------------------- C31
\* the markets with an unsettled row in the table of the call
UnsettledMarkets == {t.condition_id : t \in {u \in q_trades : u.trade_won = NULL}}
RowsOf(m) == {row \in q_ret.rows : row.condition_id = m}

\* C31: the result of get_unresolved_trades holds each market that has an
\* unsettled trade exactly once, whatever slugs and titles its trades carry,
\* and no market whose trades are all settled.
C31_DistinctMarkets ==
    q_ret.returned =>
        /\ \A m \in UnsettledMarkets : Cardinality(RowsOf(m)) = 1
        /\ \A row \in q_ret.rows : row.condition_id \in UnsettledMarkets

\* ---------------------------------------------------------------- C32
\* the record_whale_trade calls committed for a wallet: its rows in
\* whale_trades and those cleanup has deleted since
RecordsCommitted(d, a) == Cardinality(TradesOf(d, a)) + d.deleted[a].n
TotalTrades(d, a) == IF HasWallet(d, a) THEN Wallet(d, a).total_whale_trades ELSE 0
TotalVolume(d, a) == IF HasWallet(d, a) THEN Wallet(d, a).total_whale_volume ELSE 0
\* this step is the commit of a record_whale_trade call for wallet a
RecordCommits(a) ==
    /\ pc["ingest"] = "rec_insert"
    /\ pc'["ingest"] = "idle"
    /\ failure' = NoArg
    /\ arg["ingest"].trade.wallet_address = a

\* C32: a wallet's total_whale_trades is the number of record_whale_trade
\* calls committed for it; the commit of such a call adds one to it and the
\* trade's value to total_whale_volume, and no other step (of upsert_wallet,
\* resolve_trades, cleanup, or a call left without commit) changes either.
C32_TotalsCountRecords ==
    /\ [](\A a \in Addresses : TotalTrades(db, a) = RecordsCommitted(db, a))
    /\ [][\A a \in Addresses :
             IF RecordCommits(a)
             THEN /\ TotalTrades(db', a) = TotalTrades(db, a) + 1
                  /\ TotalVolume(db', a)
                        = TotalVolume(db, a) + arg["ingest"].trade.size
                                                 * arg["ingest"].trade.price
             ELSE /\ TotalTrades(db', a) = TotalTrades(db, a)
                  /\ TotalVolume(db', a) = TotalVolume(db, a)]_vars

\* a wallet with a recorded trade that cleanup has deleted and one that is
\* there, after an upsert_wallet with API data and a resolve_trades
C32_Witness ==
    \E a \in Addresses :
        /\ HasWallet(db, a)
        /\ Wallet(db, a).total_whale_trades = 2
        /\ db.deleted[a].n = 1
        /\ Cardinality(TradesOf(db, a)) = 1
        /\ Wallet(db, a).last_api_fetch # NULL
        /\ Wallet(db, a).wins + Wallet(db, a).losses = 1

\* ---------------------------------------------------------------- C33
\* C33: cleanup_old_trades leaves the wallets table as it is: the DELETE in
\* its transaction and its commit remove no wallet row and change no column
\* of one (wins, losses, realized_pnl, total_whale_trades,
\* total_whale_volume among them), whichever trades they delete.
C33_CleanupKeepsWallets ==
    /\ [](lock = "cln" => pending.db.wallets = db.wallets)
    /\ [][pc'["cln"] # pc["cln"] => db'.wallets = db.wallets]_vars

\* cleanup has committed the deletion of every trade row of a wallet that
\* has a win or a loss
C33_Witness ==
    /\ pc["cln"] = "idle"
    /\ \E a \in Addresses :
           /\ HasWallet(db, a)
           /\ Wallet(db, a).wins + Wallet(db, a).losses >= 1
           /\ db.deleted[a].n >= 1
           /\ TradesOf(db, a) = {}

\* ---------------------------------------------------------------- C34
\* C34: on each connection the subscription is sent at most once, and only
\* once the connection is established; whenever the connection is Streaming,
\* one of its three loops runs or a message of it has been handled, the
\* subscription has been sent exactly once; while _subscribe is still to
\* send it, none has been sent and no loop runs.
C34_SubscribedOnce ==
    /\ subscribed \in {0, 1}
    /\ fpc \in {"new", "subscribing"} => subscribed = 0 /\ NoTasks
    /\ fpc = "subscribing" => frames = <<>> /\ ~conn_frames
    /\ (fpc = "streaming" \/ ~NoTasks \/ frames # <<>> \/ conn_frames)
          => subscribed = 1

\* the second connection of a run is Streaming and has handled a message,
\* as the first one had
C34_Witness ==
    /\ fpc = "streaming"
    /\ subscribed = 1
    /\ _message_count = 2
    /\ Len(frames) = 1

\* ---------------------------------------------------------------- C35
NotDone == {t \in TaskNames : _tasks[t] \in {"running", "cancelling"}}

\* C35: after a termination signal (no task having ended with an error) the
\* sessions are closed in the order enricher, alerter, resolution tracker,
\* and while one of them is closed none of the three tasks is still to
\* finish.
C35_ReleasedAfterTasks ==
    (signalled /\ RaisedTasks = {}) =>
        /\ open_sessions \in {Sessions, {"alerter", "resolution_tracker"},
                               {"resolution_tracker"}, {}}
        /\ open_sessions # Sessions => NotDone = {}

\* ---------------------------------------------------------------- C36
\* the events whose enrich call was served from the cache, the stored trade
\* count a known value, and whose alert was handed to the webhook
CacheHits ==
    {ev \in EndedEvents :
        /\ ev.lookups.kind = "cached"
        /\ ev.alert \in {"204", "status", "exception"}
        /\ Val(ev.enriched)["api_trade_count"] # NULL}

\* C36: for a whale trade handled on a cache hit, the stats handed to
\* send_alert carry the stored trade count and the stored leaderboard pnl
\* and volume of the wallet.
C36_CacheHitStats ==
    \A ev \in CacheHits :
        /\ Val(ev.stats).trade_count = Val(ev.enriched)["api_trade_count"]
        /\ Val(ev.stats).pnl = Val(ev.enriched)["leaderboard_pnl"]
        /\ Val(ev.stats).volume = Val(ev.enriched)["leaderboard_volume"]


\* ---------------------------------------------------------------- C37
\* The last enrich call fetched, and neither lookup ended with a 200
LastRefreshFailed ==
    /\ epc = "idle"
    /\ e_ret # NULL
    /\ lookups = AllLookups
    /\ e_resp.trades \in Failures
    /\ e_resp.leaderboard \in Failures

\* enrich called now for the wallet would return the stored row without a
\* lookup
ServedFromCache(address) ==
    LET wallet == get_wallet(db, address, now)
    IN  wallet # NULL /\ Val(wallet)["api_data_fresh"]

\* C37: after an enrich call in which both lookups failed, the next enrich
\* call for the same wallet within 24 hours is not served from the stored row:
\* it issues the lookups again.
C37_FailedRefreshNotFresh ==
    (LastRefreshFailed /\ ElapsedLess(now, e_start, CACHE_TTL_HOURS)) =>
        ~ServedFromCache(e_address)


\* ---------------------------------------------------------------- C38
\* The source answered with a market object whose closed and resolved flags
\* are both missing or false
NotFlagged(r) ==
    /\ r.outcome = "response"
    /\ r.status = 200
    /\ r.data # <<>>
    /\ ~(TrueFlag(r.data[1].closed) \/ TrueFlag(r.data[1].resolved))

\* The step is an iteration of the cycle whose lookup was answered with such
\* a market object
LookupOfOpenMarket ==
    /\ cpc = "loop"
    /\ Len(c_log') = Len(c_log) + 1
    /\ NotFlagged(c_log'[Len(c_log')].response)

\* C38: the lookup of a market whose record is flagged neither closed nor
\* resolved settles nothing, whatever the record's outcome, outcomePrices and
\* resolvedOutcome fields hold: the step leaves every trade and every wallet
\* as it was, and extraction from such a record returns "not resolved".
C38_OpenMarketNotSettled ==
    /\ [][LookupOfOpenMarket => db' = db]_vars
    /\ [](\A m \in OpenMarkets : _extract_resolution(m) = NULL)

\* an open market with outcome "Yes", prices 0 and 1 and resolvedOutcome "No"
\* was looked up, and its trade is still unsettled
C38_Witness ==
    \E k \in 1..Len(c_log) :
        /\ NotFlagged(c_log[k].response)
        /\ c_log[k].response.data[1].outcome = Some("Yes")
        /\ c_log[k].response.data[1].resolvedOutcome = Some("No")
        /\ UnresolvedTrades(db, c_log[k].market) # {}
        /\ UnresolvedTrades(db, c_log[k].market)
              = UnresolvedTrades(c_db0, c_log[k].market)


\* ---------------------------------------------------------------- C39
\* The committed rows recorded without a market identifier
WithoutMarketId(d) == {t \in d.trades : t.condition_id = ""}

\* C39: a trade recorded without a market identifier is never looked up (no
\* lookup of a cycle is for the empty identifier), never settled, and never
\* removed by cleanup: every step leaves the committed row in the table,
\* unsettled.
C39_NoMarketIdUntouched ==
    /\ [](\A k \in 1..Len(c_log) : c_log[k].market # "")
    /\ [](\A t \in WithoutMarketId(db) : t.trade_won = NULL)
    /\ [][WithoutMarketId(db) \subseteq WithoutMarketId(db')]_vars

\* a row without market identifier that a cycle has skipped and that is
\* older than the cutoff of a cleanup which deleted a settled row
C39_Witness ==
    /\ pc["cln"] = "idle"
    /\ \E a \in Addresses : db.deleted[a].n >= 1
    /\ \E t \in WithoutMarketId(db) :
          /\ t.trade_won = NULL
          /\ TextLess(t.timestamp, IsoFormat(now))
    /\ "" \in {c_queue[k] : k \in 1..Len(c_queue)}
    /\ cpc = "idle"


\* ---------------------------------------------------------------- C40
\* Check intervals between the moment the connection was established and
\* the moment it was closed, for a connection on which no message arrived
\* (silence0 is the silence at the moment it was established)
OpenFor == closing.after - silence0

\* The connection that was closed was not the first: no message arrived on
\* it, and messages had arrived before
ClosedAfterReconnect == _message_count > 0 /\ ~closing.frames

\* The data timeout checker started on the connection has closed it
ClosedByOwnChecker ==
    fpc = "streaming" /\ t_dog = "done" /\ closing.by = "watchdog"

\* C40: after a reconnect, a connection that its data timeout checker closed
\* before any message arrived on it had been established for at least 300
\* seconds.
C40_FullWindowAfterReconnect ==
    (ClosedByOwnChecker /\ ClosedAfterReconnect) =>
        OpenFor * CHECK_INTERVAL >= DATA_TIMEOUT

====
